---- MODULE Spec2Model ----
(***************************************************************************)
(* IO board communication: the frame codec (protocol.py), the serial byte  *)
(* channel (serial_comm.py) and the retrying command dispatcher            *)
(* (io_board.py).  Bytes are the integers 0..255; Python's 0-based indexes *)
(* and half-open slices are kept through At and Slice.                     *)
(***************************************************************************)
EXTENDS Integers, Sequences, FiniteSets, TLC

(***************************************************************************)
(* Bytes and Python sequence helpers                                       *)
(***************************************************************************)

\* protocol.py:16-17
STX == 2
ETX == 3

\* ASCII letters of the command and subcommand codes (protocol.py:22-42)
\* and of the request payloads b'O' / b'C' (io_board.py:195,200).
ChC == 67
ChD == 68
ChE == 69
ChI == 73
ChL == 76
ChM == 77
ChO == 79
ChP == 80
ChQ == 81
ChR == 82
ChT == 84
ChW == 87
ChZ == 90

\* a ^ b on bytes (Python's int.__xor__ as used by `lrc ^= byte`)
RECURSIVE BitXor(_, _)
BitXor(a, b) ==
    IF a = 0 THEN b
    ELSE IF b = 0 THEN a
    ELSE ((a + b) % 2) + 2 * BitXor(a \div 2, b \div 2)

Min(a, b) == IF a < b THEN a ELSE b

\* raw[i] with Python's 0-based index
At(raw, i) == raw[i + 1]

\* raw[a:b] with Python's clamping of the bounds (0 <= a)
Slice(raw, a, b) == SubSeq(raw, a + 1, Min(b, Len(raw)))

(***************************************************************************)
(* protocol.py: Command, SubCommand, calculate_lrc, Frame                  *)
(***************************************************************************)

\* class Command(Enum): member name -> value
CommandValue ==
    [MC |-> <<ChM, ChC>>, RQ |-> <<ChR, ChQ>>]

Command == DOMAIN CommandValue

\* class SubCommand(Enum): member name -> value
SubCommandValue ==
    [DC |-> <<ChD, ChC>>, ID |-> <<ChI, ChD>>, IW |-> <<ChI, ChW>>,
     LZ |-> <<ChL, ChZ>>, MI |-> <<ChM, ChI>>, ER |-> <<ChE, ChR>>,
     EZ |-> <<ChE, ChZ>>, WP |-> <<ChW, ChP>>, PD |-> <<ChP, ChD>>,
     RT |-> <<ChR, ChT>>]

SubCommand == DOMAIN SubCommandValue

\* Command(bytes) / SubCommand(bytes): lookup of a member by value
CommandOf(bs) == CHOOSE c \in Command : CommandValue[c] = bs
SubCommandOf(bs) == CHOOSE s \in SubCommand : SubCommandValue[s] = bs

\* the loop `for byte in data[i:]: lrc ^= byte`, from lrc = 0 (byte and the
\* checksum of the bytes after it are bound, so that each is computed once)
RECURSIVE XorBytes(_, _)
XorBytes(data, i) ==
    IF i >= Len(data) THEN 0
    ELSE CHOOSE lrc \in {BitXor(byte, rest) : byte \in {At(data, i)},
                                             rest \in {XorBytes(data, i + 1)}} :
             TRUE

\* calculate_lrc with the loop starting at index 0 (STX included)
calculate_lrc_with_stx(data) == XorBytes(data, 0)

\* calculate_lrc
calculate_lrc(data) == XorBytes(data, 1)

\* Frame dataclass
Frame(command, subcommand, data) ==
    [command |-> command, subcommand |-> subcommand, data |-> data]

\* Frame.build that appends the checksum before ETX
build_lrc_before_etx(f) ==
    LET body == <<STX>> \o CommandValue[f.command]
                       \o SubCommandValue[f.subcommand] \o f.data
    IN  body \o <<calculate_lrc(body \o <<ETX>>), ETX>>

\* Frame.build without `frame.append(STX)`
build_without_stx(f) ==
    LET frame == CommandValue[f.command]
                    \o SubCommandValue[f.subcommand] \o f.data \o <<ETX>>
    IN  Append(frame, XorBytes(frame, 0))

\* Frame.build
build(f) ==
    LET frame == <<STX>> \o CommandValue[f.command]
                        \o SubCommandValue[f.subcommand] \o f.data \o <<ETX>>
    IN  Append(frame, calculate_lrc(frame))

\* build_command_frame
build_command_frame(command, subcommand, data) ==
    build(Frame(command, subcommand, data))

\* outcomes of Frame.parse: the returned (frame, data), or the exception raised
ParseOk(command, subcommand, data) ==
    [ok |-> TRUE, exc |-> "none", msg |-> "none",
     command |-> command, subcommand |-> subcommand, data |-> data]

ParseRaise(exc, msg) ==
    [ok |-> FALSE, exc |-> exc, msg |-> msg,
     command |-> "none", subcommand |-> "none", data |-> <<>>]

\* the backward search run down to index 4: range(len(raw) - 2, 3, -1)
ScanEtx_from4(raw, i) ==
    LET hit == {j \in 4..i : At(raw, j) = ETX}
    IN  IF hit = {} THEN -1
        ELSE CHOOSE j \in hit : \A k \in (j + 1)..i : At(raw, k) # ETX

\* for i in range(len(raw) - 2, 4, -1): if raw[i] == ETX: etx_pos = i; break
\* the index at which the loop, going down from i to 5, breaks (-1: it ends
\* without a break)
ScanEtx(raw, i) ==
    LET hit == {j \in 5..i : At(raw, j) = ETX}
    IN  IF hit = {} THEN -1
        ELSE CHOOSE j \in hit : \A k \in (j + 1)..i : At(raw, k) # ETX

\* an ETX search that starts at the last byte of the buffer instead of len-2
EtxPos_from_last_byte(raw) ==
    IF At(raw, Len(raw) - 1) = ETX THEN Len(raw) - 1
    ELSE IF At(raw, Len(raw) - 2) = ETX THEN Len(raw) - 2
    ELSE ScanEtx(raw, Len(raw) - 2)

\* the ETX position Frame.parse settles on (-1: not found)
EtxPos(raw) ==
    IF At(raw, Len(raw) - 2) = ETX THEN Len(raw) - 2
    ELSE ScanEtx(raw, Len(raw) - 2)

\* Frame.parse with the payload taken as raw[5:etx_pos + 1]
ParseBody_data_through_etx(raw, validate_lrc) ==
    IF Len(raw) - 2 < 5 THEN ParseRaise("FrameError", "too_short_for_etx")
    ELSE LET etx_pos == EtxPos(raw) IN
         IF etx_pos = -1 THEN ParseRaise("FrameError", "etx_not_found")
         ELSE LET expected_lrc == calculate_lrc(Slice(raw, 0, etx_pos + 1))
                  actual_lrc == IF etx_pos + 1 < Len(raw)
                                THEN At(raw, etx_pos + 1) ELSE 0
                  cmd_bytes == Slice(raw, 1, 3)
                  subcmd_bytes == Slice(raw, 3, 5)
              IN
              IF validate_lrc /\ expected_lrc # actual_lrc
              THEN ParseRaise("LRCError", "lrc_mismatch")
              ELSE IF \A c \in Command : CommandValue[c] # cmd_bytes
              THEN ParseRaise("FrameError", "unknown_command")
              ELSE IF \A s \in SubCommand : SubCommandValue[s] # subcmd_bytes
              THEN ParseRaise("FrameError", "unknown_subcommand")
              ELSE ParseOk(CommandOf(cmd_bytes), SubCommandOf(subcmd_bytes),
                           Slice(raw, 5, etx_pos + 1))

\* Frame.parse with the checksum compared whatever validate_lrc is
ParseBody_always_validates(raw, validate_lrc) ==
    IF Len(raw) - 2 < 5 THEN ParseRaise("FrameError", "too_short_for_etx")
    ELSE LET etx_pos == EtxPos(raw) IN
         IF etx_pos = -1 THEN ParseRaise("FrameError", "etx_not_found")
         ELSE LET expected_lrc == calculate_lrc(Slice(raw, 0, etx_pos + 1))
                  actual_lrc == IF etx_pos + 1 < Len(raw)
                                THEN At(raw, etx_pos + 1) ELSE 0
                  cmd_bytes == Slice(raw, 1, 3)
                  subcmd_bytes == Slice(raw, 3, 5)
              IN
              IF expected_lrc # actual_lrc
              THEN ParseRaise("LRCError", "lrc_mismatch")
              ELSE IF \A c \in Command : CommandValue[c] # cmd_bytes
              THEN ParseRaise("FrameError", "unknown_command")
              ELSE IF \A s \in SubCommand : SubCommandValue[s] # subcmd_bytes
              THEN ParseRaise("FrameError", "unknown_subcommand")
              ELSE ParseOk(CommandOf(cmd_bytes), SubCommandOf(subcmd_bytes),
                           Slice(raw, 5, etx_pos))

\* Frame.parse with the checksum compared after the command and subcommand
\* lookups
ParseBody_lrc_last(raw, validate_lrc) ==
    IF Len(raw) - 2 < 5 THEN ParseRaise("FrameError", "too_short_for_etx")
    ELSE LET etx_pos == EtxPos(raw) IN
         IF etx_pos = -1 THEN ParseRaise("FrameError", "etx_not_found")
         ELSE LET expected_lrc == calculate_lrc(Slice(raw, 0, etx_pos + 1))
                  actual_lrc == IF etx_pos + 1 < Len(raw)
                                THEN At(raw, etx_pos + 1) ELSE 0
                  cmd_bytes == Slice(raw, 1, 3)
                  subcmd_bytes == Slice(raw, 3, 5)
              IN
              IF \A c \in Command : CommandValue[c] # cmd_bytes
              THEN ParseRaise("FrameError", "unknown_command")
              ELSE IF \A s \in SubCommand : SubCommandValue[s] # subcmd_bytes
              THEN ParseRaise("FrameError", "unknown_subcommand")
              ELSE IF validate_lrc /\ expected_lrc # actual_lrc
              THEN ParseRaise("LRCError", "lrc_mismatch")
              ELSE ParseOk(CommandOf(cmd_bytes), SubCommandOf(subcmd_bytes),
                           Slice(raw, 5, etx_pos))

\* Frame.parse with an unknown subcommand code let through
ParseBody_unknown_subcommand_passes(raw, validate_lrc) ==
    IF Len(raw) - 2 < 5 THEN ParseRaise("FrameError", "too_short_for_etx")
    ELSE LET etx_pos == EtxPos(raw) IN
         IF etx_pos = -1 THEN ParseRaise("FrameError", "etx_not_found")
         ELSE LET expected_lrc == calculate_lrc(Slice(raw, 0, etx_pos + 1))
                  actual_lrc == IF etx_pos + 1 < Len(raw)
                                THEN At(raw, etx_pos + 1) ELSE 0
                  cmd_bytes == Slice(raw, 1, 3)
                  subcmd_bytes == Slice(raw, 3, 5)
              IN
              IF validate_lrc /\ expected_lrc # actual_lrc
              THEN ParseRaise("LRCError", "lrc_mismatch")
              ELSE IF \A c \in Command : CommandValue[c] # cmd_bytes
              THEN ParseRaise("FrameError", "unknown_command")
              ELSE IF \A s \in SubCommand : SubCommandValue[s] # subcmd_bytes
              THEN ParseOk(CommandOf(cmd_bytes), "unknown", Slice(raw, 5, etx_pos))
              ELSE ParseOk(CommandOf(cmd_bytes), SubCommandOf(subcmd_bytes),
                           Slice(raw, 5, etx_pos))

\* Frame.parse after the length and STX tests (protocol.py:96-142)
ParseBody(raw, validate_lrc) ==
    IF Len(raw) - 2 < 5 THEN ParseRaise("FrameError", "too_short_for_etx")
    ELSE LET etx_pos == EtxPos(raw) IN
         IF etx_pos = -1 THEN ParseRaise("FrameError", "etx_not_found")
         ELSE LET expected_lrc == calculate_lrc(Slice(raw, 0, etx_pos + 1))
                  actual_lrc == IF etx_pos + 1 < Len(raw)
                                THEN At(raw, etx_pos + 1) ELSE 0
                  cmd_bytes == Slice(raw, 1, 3)
                  subcmd_bytes == Slice(raw, 3, 5)
              IN
              IF validate_lrc /\ expected_lrc # actual_lrc
              THEN ParseRaise("LRCError", "lrc_mismatch")
              ELSE IF \A c \in Command : CommandValue[c] # cmd_bytes
              THEN ParseRaise("FrameError", "unknown_command")
              ELSE IF \A s \in SubCommand : SubCommandValue[s] # subcmd_bytes
              THEN ParseRaise("FrameError", "unknown_subcommand")
              ELSE ParseOk(CommandOf(cmd_bytes), SubCommandOf(subcmd_bytes),
                           Slice(raw, 5, etx_pos))

\* Frame.parse with the minimum length taken as 6
parse_min6(raw, validate_lrc) ==
    IF Len(raw) < 6 THEN ParseRaise("FrameError", "too_short")
    ELSE IF At(raw, 0) # STX THEN ParseRaise("FrameError", "invalid_stx")
    ELSE ParseBody(raw, validate_lrc)

\* Frame.parse with the STX test left out
parse_no_stx_test(raw, validate_lrc) ==
    IF Len(raw) < 7 THEN ParseRaise("FrameError", "too_short")
    ELSE ParseBody(raw, validate_lrc)

\* Frame.parse
parse(raw, validate_lrc) ==
    IF Len(raw) < 7 THEN ParseRaise("FrameError", "too_short")
    ELSE IF At(raw, 0) # STX THEN ParseRaise("FrameError", "invalid_stx")
    ELSE ParseBody(raw, validate_lrc)

(***************************************************************************)
(* State                                                                   *)
(***************************************************************************)

VARIABLES
    \* SerialConnection / serial.Serial (serial_comm.py)
    ser_open,       \* self._serial is not None and self._serial.is_open
    ser_timeout,    \* self._serial.timeout
    lock,           \* self._lock: the thread holding it, 0 when free
    in_buf,         \* the port's input buffer: bytes received, not yet read
    dev_out,        \* the answer the device has still to transmit
    device,         \* what is at the other end of the line: "mock", "board"
                    \* or "line"
    \* IOBoard configuration (io_board.py:59-64)
    retry_count, validate_lrc,
    \* one send_command call per thread: its locals and position
    pc, tx_frame, timeout, attempt, rx_data, etx_received, original_timeout,
    last_error, result,
    \* observation: calls of SerialConnection.send and of time.sleep per thread
    n_send, n_sleep,
    \* the codec on its own
    c_pc, c_frame, c_raw, c_validate, c_result, c_lrc,
    \* observation of the session: ports opened by serial.Serial(...) so far,
    \* and the outcome of the latest connect or disconnect call
    n_open, conn_result,
    \* one call of a DeadBolt, LoadCell or SystemManager operation: its
    \* position, the operation and its arguments, the send_command
    \* invocations it made, what send_command gave it and what it gave its
    \* caller
    d_pc, d_op, d_arg, d_sent, d_res, d_out,
    \* LoadCell._last_readings (loadcell.py:77)
    last_readings,
    \* DoorManualHandler (mqtt_interface.py:291-346): whether it was given a
    \* DeadBolt, the message handled, the DeadBolt operations handle invoked
    \* (each with what it gave) and the acknowledgement it returned
    h_deadbolt, h_request, h_calls, h_ack

serial_vars == <<ser_open, ser_timeout, lock, in_buf, dev_out>>
config_vars == <<retry_count, validate_lrc, device>>
call_vars == <<pc, tx_frame, timeout, attempt, rx_data, etx_received,
               original_timeout, last_error, result, n_send, n_sleep>>
io_vars == <<serial_vars, config_vars, call_vars>>
codec_vars == <<c_pc, c_frame, c_raw, c_validate, c_result, c_lrc>>
life_vars == <<n_open, conn_result>>
decoder_vars == <<d_pc, d_op, d_arg, d_sent, d_res, d_out, last_readings>>
handler_vars == <<h_deadbolt, h_request, h_calls, h_ack>>
vars == <<io_vars, codec_vars, life_vars, decoder_vars, handler_vars>>

(***************************************************************************)
(* The codec on its own: a frame is built, the wire may damage it, and the *)
(* buffer is parsed or summed.                                             *)
(***************************************************************************)

\* longest payload handed to Frame.build in the codec runs
MaxData == 1

\* payload bytes handed to Frame.build: ETX itself and a letter
DataBytes == {ETX, ChO}

\* bytes the wire writes over a frame byte or appends to it
WireBytes == {ETX, 0}

RECURSIVE SeqsUpTo(_, _)
SeqsUpTo(S, n) ==
    IF n = 0 THEN {<<>>}
    ELSE LET shorter == SeqsUpTo(S, n - 1)
         IN  shorter \cup {Append(s, b) : s \in shorter, b \in S}

NoFrame == Frame("none", "none", <<>>)
NotParsed == ParseRaise("none", "none")

CodecInit ==
    /\ c_pc = "input"
    /\ c_frame = NoFrame
    /\ c_raw = <<>>
    /\ c_validate = FALSE
    /\ c_result = NotParsed
    /\ c_lrc = <<>>

\* frame = Frame(command, subcommand, data); raw = frame.build()
CodecBuild(command, subcommand, data) ==
    /\ c_pc = "input"
    /\ c_frame' = Frame(command, subcommand, data)
    /\ c_raw' = build(c_frame')
    /\ c_pc' = "built"
    /\ UNCHANGED <<io_vars, life_vars, decoder_vars, handler_vars, c_validate, c_result, c_lrc>>

\* the wire between build and parse: the buffer is cut to its first k bytes,
\* byte i of what is left is overwritten by b (i = -1: none), and e is
\* appended (e = -1: nothing)
WireFault(k, i, b, e) ==
    /\ c_pc = "built"
    /\ k \in 0..Len(c_raw)
    /\ i \in -1..(k - 1)
    /\ (i = -1) => (b = 0)
    /\ <<k, i, e>> # <<Len(c_raw), -1, -1>>
    /\ LET cut == Slice(c_raw, 0, k)
           hit == IF i = -1 THEN cut ELSE [cut EXCEPT ![i + 1] = b]
       IN  c_raw' = IF e = -1 THEN hit ELSE Append(hit, e)
    /\ c_pc' = "wire"
    /\ UNCHANGED <<io_vars, life_vars, decoder_vars, handler_vars, c_frame, c_validate, c_result, c_lrc>>

\* Frame.parse(raw, validate_lrc=validate)
CodecParse(validate) ==
    /\ c_pc \in {"built", "wire"}
    /\ c_validate' = validate
    /\ c_result' = parse(c_raw, validate)
    /\ c_pc' = "parsed"
    /\ UNCHANGED <<io_vars, life_vars, decoder_vars, handler_vars, c_frame, c_raw, c_lrc>>

\* calculate_lrc of the first k bytes of the buffer (k = len-1 is the call
\* Frame.build and Frame.parse make), and of the same bytes with byte 0
\* replaced by b
CodecLrc(k, b) ==
    /\ c_pc \in {"built", "wire"}
    /\ k \in 1..Len(c_raw)
    /\ b # At(c_raw, 0)
    /\ LET data == Slice(c_raw, 0, k) IN
       c_lrc' = <<calculate_lrc(data), calculate_lrc([data EXCEPT ![1] = b])>>
    /\ c_pc' = "summed"
    /\ UNCHANGED <<io_vars, life_vars, decoder_vars, handler_vars, c_frame, c_raw, c_validate, c_result>>

CodecNext ==
    \/ \E command \in Command, subcommand \in SubCommand,
          data \in SeqsUpTo(DataBytes, MaxData) :
            CodecBuild(command, subcommand, data)
    \/ \E k \in 0..(7 + MaxData), i \in -1..(6 + MaxData),
          b \in WireBytes, e \in WireBytes \cup {-1} :
            WireFault(k, i, b, e)
    \/ \E validate \in BOOLEAN : CodecParse(validate)
    \/ \E k \in 1..(8 + MaxData), b \in {0, STX} : CodecLrc(k, b)

(***************************************************************************)
(* serial_comm.py and io_board.py: the channel and the dispatcher          *)
(***************************************************************************)

\* callers of send_command on the one IOBoard
Threads == {1, 2}

\* largest retry_count the IOBoard is constructed with
MaxRetry == 2

\* io_board.py:46
DefaultRetryCount == 3

\* serial_comm.py:226
max_buffer_size == 500

\* DEFAULT_TIMEOUT (serial_comm.py:26) and a per-call override, in tenths of
\* a second; None is the missing argument
DefaultTimeout == 10
OverrideTimeout == 20
None == -1

\* a byte in flight, with the request the device answers by it (the thread
\* that sent it and the ordinal k of that thread's send) and the length of
\* the transmission it is part of
Tagged(bytes, t, k) == [i \in 1..Len(bytes) |-> <<bytes[i], t, k, Len(bytes)>>]
Bytes(tagged) == [i \in 1..Len(tagged) |-> tagged[i][1]]
Tags(tagged) == {tagged[i][2] : i \in 1..Len(tagged)}
Sends(tagged) == {tagged[i][3] : i \in 1..Len(tagged)}
Lengths(tagged) == {tagged[i][4] : i \in 1..Len(tagged)}

\* the request each caller makes: a status poll RQ-ID (io_board.py:205)
\* racing a user command MC-DC 'O' (io_board.py:195)
Request(t) == IF t = 1 THEN <<"RQ", "ID", <<>>>> ELSE <<"MC", "DC", <<ChO>>>>

\* the timeout argument of each caller: the poll passes none
TimeoutArg(t) == IF t = 1 THEN None ELSE OverrideTimeout

\* payload of the device's answer to a subcommand code: a door letter for
\* an ID query, none for a control command (tests/mock_serial.py:52-62)
ReplyData(subcmd) == IF subcmd = SubCommandValue["ID"] THEN <<ChC>> ELSE <<>>

\* the answer frame of the device (tests/mock_serial.py:93-108)
_build_response(cmd, subcmd, data) ==
    LET frame == <<STX>> \o cmd \o subcmd \o data \o <<ETX>>
    IN  Append(frame, XorBytes(frame, 1))

\* what the device may put on the wire for the request tx: nothing, the
\* answer to the request's command and subcommand, or that answer with its
\* first byte garbled, cut after 3 bytes, or with a wrong checksum
DeviceReplies(tx) ==
    LET g == _build_response(Slice(tx, 1, 3), Slice(tx, 3, 5),
                             ReplyData(Slice(tx, 3, 5)))
    IN  {<<>>, g, [g EXCEPT ![1] = 0], Slice(g, 0, 3),
         [g EXCEPT ![Len(g)] = BitXor(g[Len(g)], 1)]}

\* a board that never ends its transmission: more bytes than the receive
\* buffer takes, none of them ETX
Babble == [i \in 1..(max_buffer_size + 1) |-> ChO]

\* what the board itself may put on the wire for the request tx: what the
\* mock does, and besides the answer framed with another subcommand (an
\* acknowledgement for a query, a status for a command), an answer whose
\* checksum byte comes out as 0x03, an answer whose payload holds a 0x03
\* byte, an answer that ends with its ETX (no checksum byte), or an endless
\* transmission
BoardReplies(tx) ==
    LET cmd == Slice(tx, 1, 3)
        subcmd == Slice(tx, 3, 5)
        other == IF subcmd = SubCommandValue["ID"]
                 THEN SubCommandValue["DC"] ELSE SubCommandValue["ID"]
        g == _build_response(cmd, subcmd, ReplyData(subcmd))
    IN  DeviceReplies(tx)
        \cup {_build_response(cmd, other, ReplyData(other)),
              _build_response(cmd, subcmd, <<XorBytes(cmd \o subcmd, 0)>>),
              _build_response(cmd, subcmd, <<ETX, ChO>>),
              Slice(g, 0, Len(g) - 1),
              Babble}

\* the board's answers by the way the attempt that reads them ends: nothing
\* (the read times out), the answer frame (it parses) and an endless
\* transmission (the buffer fills up and does not parse)
LineReplies(tx) ==
    {<<>>,
     _build_response(Slice(tx, 1, 3), Slice(tx, 3, 5), ReplyData(Slice(tx, 3, 5))),
     Babble}

\* the mock serves one request at a time: an answer it had not yet
\* transmitted is replaced (tests/mock_serial.py:132-134); the board
\* transmits every answer, however late
Answer(t, k) ==
    \E reply \in (IF device = "mock" THEN DeviceReplies(tx_frame[t])
                  ELSE IF device = "board" THEN BoardReplies(tx_frame[t])
                  ELSE LineReplies(tx_frame[t])) :
        dev_out' = (IF device = "mock" THEN <<>> ELSE dev_out)
                       \o Tagged(reply, t, k)

NoResult == [kind |-> "none", ok |-> FALSE, data |-> <<>>, exc |-> "none"]
Return(ok, data) == [kind |-> "return", ok |-> ok, data |-> data, exc |-> "none"]
Raise(exc) == [kind |-> "raise", ok |-> FALSE, data |-> <<>>, exc |-> exc]

\* most ports one session opens in a run
MaxOpens == 2

\* outcome of a connect or disconnect call: what it returned or raised,
\* whether it constructed a serial.Serial, and whether
\* self._serial.close() raised inside it
NoCall == [call |-> "none", kind |-> "none", value |-> "none",
           opened |-> FALSE, close_raised |-> FALSE]
ConnectReturned(opened) ==
    [call |-> "connect", kind |-> "return", value |-> "True",
     opened |-> opened, close_raised |-> FALSE]
ConnectRaised == [call |-> "connect", kind |-> "raise",
                  value |-> "ConnectionError", opened |-> FALSE,
                  close_raised |-> FALSE]
DisconnectReturned(raised) ==
    [call |-> "disconnect", kind |-> "return", value |-> "None",
     opened |-> FALSE, close_raised |-> raised]

\* IOBoard.__init__ and SerialConnection.__init__: the session is created closed
IOBoardInit(rc, v) ==
    /\ ser_open = FALSE
    /\ ser_timeout = DefaultTimeout
    /\ lock = 0
    /\ in_buf = <<>>
    /\ dev_out = <<>>
    /\ retry_count = rc
    /\ validate_lrc = v
    /\ pc = [t \in Threads |-> "idle"]
    /\ tx_frame = [t \in Threads |-> <<>>]
    /\ timeout = [t \in Threads |-> None]
    /\ attempt = [t \in Threads |-> 0]
    /\ rx_data = [t \in Threads |-> <<>>]
    /\ etx_received = [t \in Threads |-> FALSE]
    /\ original_timeout = [t \in Threads |-> DefaultTimeout]
    /\ last_error = [t \in Threads |-> "None"]
    /\ result = [t \in Threads |-> NoResult]
    /\ n_send = [t \in Threads |-> 0]
    /\ n_sleep = [t \in Threads |-> 0]
    /\ n_open = 0
    /\ conn_result = NoCall

\* SerialConnection.connect on a closed session where serial.Serial(...)
\* succeeds: the port is opened
connect ==
    /\ ~ser_open
    /\ n_open < MaxOpens
    /\ ser_open' = TRUE
    /\ n_open' = n_open + 1
    /\ conn_result' = ConnectReturned(TRUE)
    /\ UNCHANGED <<codec_vars, decoder_vars, handler_vars, ser_timeout, lock, in_buf,
                   dev_out, config_vars, call_vars>>

\* SerialConnection.connect on a connected session: `return True` at once
connect_again ==
    /\ ser_open
    /\ conn_result' = ConnectReturned(FALSE)
    /\ UNCHANGED <<codec_vars, decoder_vars, handler_vars, serial_vars, config_vars,
                   call_vars, n_open>>

\* SerialConnection.connect where serial.Serial(...) raises
\* SerialException: ConnectionError, self._serial is never assigned
connect_fails ==
    /\ ~ser_open
    /\ conn_result' = ConnectRaised
    /\ UNCHANGED <<codec_vars, decoder_vars, handler_vars, serial_vars, config_vars,
                   call_vars, n_open>>

\* SerialConnection.disconnect without its `finally: self._serial = None`:
\* a close() that raises leaves the port object in place
disconnect_no_finally(close_raises) ==
    /\ close_raises => ser_open
    /\ ser_open' = (ser_open /\ close_raises)
    /\ conn_result' = DisconnectReturned(close_raises)
    /\ UNCHANGED <<codec_vars, decoder_vars, handler_vars, ser_timeout, lock, in_buf,
                   dev_out, config_vars, call_vars, n_open>>

\* SerialConnection.disconnect: close() is called on an open port and may
\* raise, which is logged; self._serial = None in either case.  On a
\* closed session nothing is done.
disconnect(close_raises) ==
    /\ close_raises => ser_open
    /\ ser_open' = FALSE
    /\ conn_result' = DisconnectReturned(close_raises)
    /\ UNCHANGED <<codec_vars, decoder_vars, handler_vars, ser_timeout, lock, in_buf,
                   dev_out, config_vars, call_vars, n_open>>

\* `for attempt in range(self.retry_count + 1)`
InRange_inclusive(a, rc) == a <= rc

\* `for attempt in range(self.retry_count)`: is there an iteration `a`
InRange(a, rc) == a < rc

\* `if attempt < self.retry_count - 1` that sleeps after every failed attempt
ShouldSleep_always(a, rc) == a < rc

\* `if attempt < self.retry_count - 1`
ShouldSleep(a, rc) == a < rc - 1

\* the for statement moves thread t to iteration a, or past the loop to
\* `return False, b''`
Iterate(t, a) ==
    IF InRange(a, retry_count)
    THEN /\ pc' = [pc EXCEPT ![t] = "send"]
         /\ attempt' = [attempt EXCEPT ![t] = a]
         /\ UNCHANGED result
    ELSE /\ pc' = [pc EXCEPT ![t] = "done"]
         /\ result' = [result EXCEPT ![t] = Return(FALSE, <<>>)]
         /\ UNCHANGED attempt

\* an except clause of the loop body has caught exc: last_error = e, then
\* the sleep test at the end of the body; time.sleep is entered, or the
\* for statement takes over (the attempt's buffer is dead from here on)
AttemptFailed(t, exc) ==
    /\ last_error' = [last_error EXCEPT ![t] = exc]
    /\ rx_data' = [rx_data EXCEPT ![t] = <<>>]
    /\ IF ShouldSleep(attempt[t], retry_count)
       THEN /\ pc' = [pc EXCEPT ![t] = "sleep"]
            /\ n_sleep' = [n_sleep EXCEPT ![t] = @ + 1]
            /\ UNCHANGED <<attempt, result>>
       ELSE /\ Iterate(t, attempt[t] + 1)
            /\ UNCHANGED n_sleep

\* send_command up to the loop: the connection test and the frame
send_command(t, command, subcommand, data, tmo) ==
    /\ pc[t] = "idle"
    /\ IF ~ser_open
       THEN /\ pc' = [pc EXCEPT ![t] = "done"]
            /\ result' = [result EXCEPT ![t] = Raise("CommunicationError")]
            /\ UNCHANGED <<tx_frame, timeout, attempt>>
       ELSE /\ tx_frame' = [tx_frame EXCEPT ![t] =
                               build_command_frame(command, subcommand, data)]
            /\ timeout' = [timeout EXCEPT ![t] = tmo]
            /\ Iterate(t, 0)
    /\ UNCHANGED <<codec_vars, decoder_vars, handler_vars, life_vars, serial_vars, config_vars, rx_data, etx_received,
                   original_timeout, last_error, n_send, n_sleep>>

\* SerialConnection.send under the lock: both buffers are reset, the frame
\* is written and flushed, and the device chooses its answer
send(t) ==
    /\ pc[t] = "send"
    /\ ser_open
    /\ lock = 0
    /\ n_send' = [n_send EXCEPT ![t] = @ + 1]
    /\ in_buf' = <<>>
    /\ Answer(t, n_send'[t])
    /\ pc' = [pc EXCEPT ![t] = "recv"]
    /\ UNCHANGED <<codec_vars, decoder_vars, handler_vars, life_vars, ser_open, ser_timeout, lock, config_vars, tx_frame, timeout,
                   attempt, rx_data, etx_received, original_timeout,
                   last_error, result, n_sleep>>

\* SerialConnection.send raising: SerialTimeoutException becomes
\* TimeoutError, SerialException becomes CommunicationError
send_raises(t, exc) ==
    /\ pc[t] = "send"
    /\ ser_open
    /\ lock = 0
    /\ n_send' = [n_send EXCEPT ![t] = @ + 1]
    /\ in_buf' = <<>>
    /\ AttemptFailed(t, exc)
    /\ UNCHANGED <<codec_vars, decoder_vars, handler_vars, life_vars, ser_open, ser_timeout, lock, dev_out,
                   config_vars, tx_frame, timeout, etx_received,
                   original_timeout>>

\* receive_until_etx takes the lock and sets the read timeout
receive_until_etx(t) ==
    /\ pc[t] = "recv"
    /\ ser_open
    /\ lock = 0
    /\ lock' = t
    /\ original_timeout' = [original_timeout EXCEPT ![t] = ser_timeout]
    /\ ser_timeout' = IF timeout[t] # None THEN timeout[t] ELSE ser_timeout
    /\ rx_data' = [rx_data EXCEPT ![t] = <<>>]
    /\ etx_received' = [etx_received EXCEPT ![t] = FALSE]
    /\ pc' = [pc EXCEPT ![t] = "read"]
    /\ UNCHANGED <<codec_vars, decoder_vars, handler_vars, life_vars, ser_open, in_buf, dev_out, config_vars,
                   tx_frame, timeout, attempt, last_error, result, n_send,
                   n_sleep>>

\* the end of receive_until_etx with a lock that is not released
Release_keeps_lock(t) ==
    /\ lock' = lock
    /\ ser_timeout' = original_timeout[t]
    /\ etx_received' = [etx_received EXCEPT ![t] = FALSE]

\* the end of receive_until_etx without its
\* `finally: self._serial.timeout = original_timeout`
Release_keeps_timeout(t) ==
    /\ lock' = 0
    /\ ser_timeout' = ser_timeout
    /\ etx_received' = [etx_received EXCEPT ![t] = FALSE]

\* receive_until_etx leaves its `with self._lock` block: the finally clause
\* restores the timeout and the lock is released
Release(t) ==
    /\ lock' = 0
    /\ ser_timeout' = original_timeout[t]
    /\ etx_received' = [etx_received EXCEPT ![t] = FALSE]

\* receive_until_etx returns data to send_command
Returned(t, data) ==
    /\ Release(t)
    /\ rx_data' = [rx_data EXCEPT ![t] = data]
    /\ pc' = [pc EXCEPT ![t] = "parse"]
    /\ UNCHANGED <<attempt, last_error, result, n_sleep>>

\* the read loop as `while True`: no test of the buffer's length
read_byte_no_cap(t) ==
    /\ pc[t] = "read"
    /\ in_buf # <<>>
    /\ LET byte == Head(in_buf)
           data == Append(rx_data[t], byte)
       IN
       /\ in_buf' = Tail(in_buf)
       /\ IF byte[1] # ETX /\ etx_received[t]
          THEN Returned(t, data)
          ELSE /\ rx_data' = [rx_data EXCEPT ![t] = data]
               /\ etx_received' = [etx_received EXCEPT ![t] = @ \/ byte[1] = ETX]
               /\ UNCHANGED <<lock, ser_timeout, pc, attempt, last_error,
                              result, n_sleep>>
    /\ UNCHANGED <<codec_vars, decoder_vars, handler_vars, life_vars, ser_open, dev_out, config_vars, tx_frame,
                   timeout, original_timeout, n_send>>

\* the read loop as `while len(data) <= max_buffer_size`
read_byte_cap_inclusive(t) ==
    /\ pc[t] = "read"
    /\ in_buf # <<>>
    /\ LET byte == Head(in_buf)
           data == Append(rx_data[t], byte)
       IN
       /\ in_buf' = Tail(in_buf)
       /\ IF (byte[1] # ETX /\ etx_received[t]) \/ ~(Len(data) <= max_buffer_size)
          THEN Returned(t, data)
          ELSE /\ rx_data' = [rx_data EXCEPT ![t] = data]
               /\ etx_received' = [etx_received EXCEPT ![t] = @ \/ byte[1] = ETX]
               /\ UNCHANGED <<lock, ser_timeout, pc, attempt, last_error,
                              result, n_sleep>>
    /\ UNCHANGED <<codec_vars, decoder_vars, handler_vars, life_vars, ser_open, dev_out, config_vars, tx_frame,
                   timeout, original_timeout, n_send>>

\* one turn of the read loop in which self._serial.read(1) returns a byte
read_byte(t) ==
    /\ pc[t] = "read"
    /\ ser_open
    /\ in_buf # <<>>
    /\ LET byte == Head(in_buf)
           data == Append(rx_data[t], byte)
       IN
       /\ in_buf' = Tail(in_buf)
       /\ IF (byte[1] # ETX /\ etx_received[t]) \/ ~(Len(data) < max_buffer_size)
          THEN Returned(t, data)
          ELSE /\ rx_data' = [rx_data EXCEPT ![t] = data]
               /\ etx_received' = [etx_received EXCEPT ![t] = @ \/ byte[1] = ETX]
               /\ UNCHANGED <<lock, ser_timeout, pc, attempt, last_error,
                              result, n_sleep>>
    /\ UNCHANGED <<codec_vars, decoder_vars, handler_vars, life_vars, ser_open, dev_out, config_vars, tx_frame,
                   timeout, original_timeout, n_send>>

\* a read timeout that raises TimeoutError whatever was received
read_timeout_always_raises(t) ==
    /\ pc[t] = "read"
    /\ in_buf = <<>>
    /\ Release(t)
    /\ AttemptFailed(t, "TimeoutError")
    /\ UNCHANGED <<codec_vars, decoder_vars, handler_vars, life_vars, ser_open, in_buf, dev_out, config_vars,
                   tx_frame, timeout, original_timeout, n_send>>

\* one turn of the read loop in which self._serial.read(1) times out:
\* TimeoutError when nothing was received, else the partial buffer
read_timeout(t) ==
    /\ pc[t] = "read"
    /\ ser_open
    /\ in_buf = <<>>
    /\ IF rx_data[t] = <<>>
       THEN /\ Release(t)
            /\ AttemptFailed(t, "TimeoutError")
       ELSE Returned(t, rx_data[t])
    /\ UNCHANGED <<codec_vars, decoder_vars, handler_vars, life_vars, ser_open, in_buf, dev_out, config_vars,
                   tx_frame, timeout, original_timeout, n_send>>

\* self._serial.read(1) raises SerialException: CommunicationError
read_raises(t) ==
    /\ pc[t] = "read"
    /\ ser_open
    /\ Release(t)
    /\ AttemptFailed(t, "CommunicationError")
    /\ UNCHANGED <<codec_vars, decoder_vars, handler_vars, life_vars, ser_open, in_buf, dev_out, config_vars,
                   tx_frame, timeout, original_timeout, n_send>>

\* what a step of thread t does on a session that disconnect has closed:
\* CommunicationError (the is_connected test, or a SerialException of the
\* closed port) is caught by the retry loop; AttributeError (a method or
\* the timeout of self._serial, which is None) is caught nowhere and ends
\* send_command.  The `with` statement releases the lock in either case,
\* and no frame is written.
Detached(t, exc) ==
    /\ ~ser_open
    /\ exc \in {"CommunicationError", "AttributeError"}
    /\ lock' = IF lock = t THEN 0 ELSE lock
    /\ etx_received' = [etx_received EXCEPT ![t] = FALSE]
    /\ IF exc = "CommunicationError"
       THEN AttemptFailed(t, exc)
       ELSE /\ pc' = [pc EXCEPT ![t] = "done"]
            /\ result' = [result EXCEPT ![t] = Raise(exc)]
            /\ UNCHANGED <<attempt, last_error, rx_data, n_sleep>>
    /\ UNCHANGED <<codec_vars, decoder_vars, handler_vars, life_vars, ser_open, ser_timeout,
                   in_buf, dev_out, config_vars, tx_frame, timeout,
                   original_timeout, n_send>>

\* SerialConnection.send on a session closed by disconnect
send_detached(t, exc) ==
    /\ pc[t] = "send"
    /\ Detached(t, exc)

\* SerialConnection.receive_until_etx called on a session closed by
\* disconnect
receive_detached(t, exc) ==
    /\ pc[t] = "recv"
    /\ Detached(t, exc)

\* a turn of the read loop after disconnect has closed the port under the
\* receive: self._serial.read(1) on a closed port or on None
read_detached(t, exc) ==
    /\ pc[t] = "read"
    /\ Detached(t, exc)

\* `except (FrameError, IOBoardError)`: LRCError is an IOBoardError
ParseCaught(exc) == exc \in {"FrameError", "LRCError"}

\* the parse step of send_command without its `return True, response_data`
parse_response_no_return(t) ==
    /\ pc[t] = "parse"
    /\ AttemptFailed(t, last_error[t])
    /\ UNCHANGED <<codec_vars, decoder_vars, handler_vars, life_vars, serial_vars, config_vars, tx_frame, timeout,
                   etx_received, original_timeout, n_send>>

\* the parse step of send_command with a subcommand mismatch raised as a
\* FrameError instead of logged
parse_response_mismatch_fails(t) ==
    /\ pc[t] = "parse"
    /\ LET r == parse(Bytes(rx_data[t]), validate_lrc) IN
       IF r.ok /\ SubCommandValue[r.subcommand] = Slice(tx_frame[t], 3, 5)
       THEN /\ pc' = [pc EXCEPT ![t] = "done"]
            /\ result' = [result EXCEPT ![t] = Return(TRUE, r.data)]
            /\ UNCHANGED <<attempt, last_error, rx_data, n_sleep>>
       ELSE AttemptFailed(t, IF r.ok THEN "FrameError" ELSE r.exc)
    /\ UNCHANGED <<codec_vars, decoder_vars, handler_vars, life_vars, serial_vars, config_vars, tx_frame, timeout,
                   etx_received, original_timeout, n_send>>

\* send_command parses the buffer: `return True, response_data`, or the
\* except clause for Frame.parse's exceptions
parse_response(t) ==
    /\ pc[t] = "parse"
    /\ LET r == parse(Bytes(rx_data[t]), validate_lrc) IN
       IF r.ok
       THEN /\ pc' = [pc EXCEPT ![t] = "done"]
            /\ result' = [result EXCEPT ![t] = Return(TRUE, r.data)]
            /\ UNCHANGED <<attempt, last_error, rx_data, n_sleep>>
       ELSE IF ParseCaught(r.exc)
       THEN AttemptFailed(t, r.exc)
       ELSE /\ pc' = [pc EXCEPT ![t] = "done"]
            /\ result' = [result EXCEPT ![t] = Raise(r.exc)]
            /\ UNCHANGED <<attempt, last_error, rx_data, n_sleep>>
    /\ UNCHANGED <<codec_vars, decoder_vars, handler_vars, life_vars, serial_vars, config_vars, tx_frame, timeout,
                   etx_received, original_timeout, n_send>>

\* time.sleep(self.retry_delay) returns; the loop goes on
sleep(t) ==
    /\ pc[t] = "sleep"
    /\ Iterate(t, attempt[t] + 1)
    /\ UNCHANGED <<codec_vars, decoder_vars, handler_vars, life_vars, serial_vars, config_vars, tx_frame, timeout,
                   rx_data, etx_received, original_timeout, last_error,
                   n_send, n_sleep>>

\* the device transmits its answer into the port's input buffer
DeviceEmit ==
    /\ ser_open
    /\ dev_out # <<>>
    /\ in_buf' = in_buf \o dev_out
    /\ dev_out' = <<>>
    /\ UNCHANGED <<codec_vars, decoder_vars, handler_vars, life_vars, ser_open, ser_timeout, lock, config_vars, call_vars>>

(***************************************************************************)
(* deadbolt.py, loadcell.py, system.py: the response decoders.  A str is   *)
(* the sequence of its code points; a float is Num(n), NaN or Inf(sign).   *)
(***************************************************************************)

\* deadbolt.py:44 ('U') and the letters 'n' 'a' 'i' 'f' of float()'s words
ChU == 85

\* deadbolt.py:150
MIN_RESPONSE_LENGTH == 7

\* loadcell.py:23-25
NUM_CHANNELS == 10
BYTES_PER_CHANNEL == 6
TOTAL_DATA_BYTES == NUM_CHANNELS * BYTES_PER_CHANNEL

\* system.py:27-29
PRODUCTION_NUMBER_LENGTH == 11
ERROR_HISTORY_COUNT == 4
ERROR_ENTRY_SIZE == 4

\* what an operation gives its caller: a returned value or an exception
Gives(v) == [kind |-> "return", exc |-> "none", value |-> v]
Throws(exc) == [kind |-> "raise", exc |-> exc, value |-> <<>>]
NotYet == [kind |-> "none", exc |-> "none", value |-> <<>>]

\* no operation wraps its send_command call in a try: an exception of
\* send_command reaches the operation's caller; else the operation goes on
\* to compute its value
Uncaught(res, outcome) ==
    IF res.kind = "raise" THEN Throws(res.exc) ELSE outcome

\* bytes.decode('ascii'): fails on a byte above 0x7F, else each byte is the
\* code point of its character
Decodable(bytes) == \A i \in 1..Len(bytes) : bytes[i] < 128
decode(bytes) == [i \in 1..Len(bytes) |-> bytes[i]]

\* bytes.decode('ascii', errors='replace'): a byte above 0x7F becomes U+FFFD
decode_replace(bytes) ==
    [i \in 1..Len(bytes) |-> IF bytes[i] < 128 THEN bytes[i] ELSE 65533]

\* str.encode('ascii'): fails on a code point above 0x7F
Encodable(str) == \A i \in 1..Len(str) : str[i] < 128
encode(str) == [i \in 1..Len(str) |-> str[i]]

\* str.isspace() of one character of a decoded ASCII text
IsSpace(c) == c \in (9..13) \cup (28..32)

\* str.strip()
strip(str) ==
    LET keep == {i \in 1..Len(str) : ~IsSpace(str[i])}
    IN  IF keep = {} THEN <<>>
        ELSE SubSeq(str, CHOOSE i \in keep : \A j \in keep : i <= j,
                         CHOOSE i \in keep : \A j \in keep : j <= i)

Num(n) == [kind |-> "num", n |-> n]
NaN == [kind |-> "nan", n |-> 0]
Inf(sign) == [kind |-> "inf", n |-> sign]

\* value of a string of decimal digits
RECURSIVE DecimalValue(_)
DecimalValue(digits) ==
    IF digits = <<>> THEN 0
    ELSE 10 * DecimalValue(SubSeq(digits, 1, Len(digits) - 1))
             + (digits[Len(digits)] - 48)

\* str.lower() on ASCII letters
lower(str) ==
    [i \in 1..Len(str) |-> IF str[i] \in 65..90 THEN str[i] + 32 ELSE str[i]]

\* float(str) of a stripped, non-empty string that holds no '.', 'e', 'E'
\* or '_': an optional sign, then decimal digits or one of the words nan,
\* inf, infinity in any case; anything else is a ValueError
float(str) ==
    LET signed == str[1] \in {43, 45}
        sign == IF str[1] = 45 THEN -1 ELSE 1
        body == IF signed THEN Tail(str) ELSE str
        word == lower(body)
    IN  IF body # <<>> /\ \A i \in 1..Len(body) : body[i] \in 48..57
        THEN [ok |-> TRUE, value |-> Num(sign * DecimalValue(body))]
        ELSE IF word = <<110, 97, 110>>
        THEN [ok |-> TRUE, value |-> NaN]
        ELSE IF word \in {<<105, 110, 102>>,
                          <<105, 110, 102, 105, 110, 105, 116, 121>>}
        THEN [ok |-> TRUE, value |-> Inf(sign)]
        ELSE [ok |-> FALSE, value |-> Num(0)]

\* a + b on floats
Plus(a, b) ==
    IF a.kind = "nan" \/ b.kind = "nan" THEN NaN
    ELSE IF a.kind = "inf" /\ b.kind = "inf"
    THEN (IF a.n = b.n THEN a ELSE NaN)
    ELSE IF a.kind = "inf" THEN a
    ELSE IF b.kind = "inf" THEN b
    ELSE Num(a.n + b.n)

\* DOOR_STATUS_MAP.get(byte, DoorStatus.UNKNOWN)
DoorStatusOf(byte) ==
    IF byte = ChO THEN "OPENED" ELSE IF byte = ChC THEN "CLOSED" ELSE "UNKNOWN"

\* LOCK_STATUS_MAP.get(byte, LockStatus.UNKNOWN)
LockStatusOf(byte) ==
    IF byte = ChL THEN "LOCK" ELSE IF byte = ChU THEN "UNLOCK" ELSE "UNKNOWN"

\* the boolean operations: `success, _ = send_command(...); return success`
ReturnsSuccess(res) == Uncaught(res, Gives(res.ok))

\* DeadBolt.get_status with the lock read at data[5]
get_status_lock_byte_5(res) ==
    Uncaught(res,
        IF ~res.ok \/ Len(res.data) < MIN_RESPONSE_LENGTH
        THEN Gives(<<"UNKNOWN", "UNKNOWN">>)
        ELSE Gives(<<DoorStatusOf(At(res.data, 0)),
                     LockStatusOf(At(res.data, 5))>>))

\* DeadBolt.get_status, after its send_command returned res
get_status(res) ==
    Uncaught(res,
        IF ~res.ok THEN Gives(<<"UNKNOWN", "UNKNOWN">>)
        ELSE IF Len(res.data) < MIN_RESPONSE_LENGTH
        THEN Gives(<<"UNKNOWN", "UNKNOWN">>)
        ELSE Gives(<<DoorStatusOf(At(res.data, 0)),
                     LockStatusOf(At(res.data, 6))>>))

\* LoadCellReading dataclass
LoadCellReading(channel, value, raw) ==
    [channel |-> channel, value |-> value, raw |-> raw]

\* one turn of read_all's loop: the reading of channel ch + 1
Reading(data, ch) ==
    LET start_idx == ch * BYTES_PER_CHANNEL
        end_idx == start_idx + BYTES_PER_CHANNEL
        raw_bytes == Slice(data, start_idx, end_idx)
        raw_str == strip(decode_replace(raw_bytes))
    IN  IF raw_str = <<>>
        THEN LoadCellReading(ch + 1, Num(0), <<>>)
        ELSE LoadCellReading(ch + 1,
                             IF float(raw_str).ok THEN float(raw_str).value
                                                  ELSE Num(0),
                             raw_str)

\* the readings list of LoadCell.read_all that ends with the payload: a
\* channel whose slot starts beyond the last byte has no entry
Readings_within_payload(res) ==
    IF ~res.ok THEN <<>>
    ELSE [c \in 1..Min(NUM_CHANNELS,
                       (Len(res.data) + BYTES_PER_CHANNEL - 1)
                           \div BYTES_PER_CHANNEL)
              |-> Reading(res.data, c - 1)]

\* the readings list of LoadCell.read_all that reports a failure of the
\* dispatcher as ten zero readings
Readings_zeros_on_failure(res) ==
    [c \in 1..NUM_CHANNELS |->
        IF res.ok THEN Reading(res.data, c - 1)
                  ELSE LoadCellReading(c, Num(0), <<>>)]

\* the list LoadCell.read_all returns, after its send_command returned res
Readings(res) ==
    IF ~res.ok THEN <<>>
    ELSE [c \in 1..NUM_CHANNELS |-> Reading(res.data, c - 1)]

\* LoadCell.read_all
read_all(res) == Uncaught(res, Gives(Readings(res)))

\* Python's None as a returned value
NoneValue == [none |-> TRUE]

\* LoadCell.read_channel for a channel that passed its range test
read_channel(channel, res) ==
    Uncaught(res,
        LET readings == Readings(res)
        IN  IF readings # <<>> /\ Len(readings) >= channel
            THEN Gives(readings[channel])
            ELSE Gives(NoneValue))

\* sum(r.value for r in readings): from the int 0, left to right
RECURSIVE SumValues(_, _)
SumValues(readings, n) ==
    IF n = 0 THEN Num(0)
    ELSE Plus(SumValues(readings, n - 1), readings[n].value)

\* LoadCell.get_total_weight
get_total_weight(res) ==
    Uncaught(res, Gives(SumValues(Readings(res), Len(Readings(res)))))

\* SystemInfo dataclass
SystemInfo(production_number, raw) ==
    [production_number |-> production_number, raw |-> raw]

\* SystemManager.get_info, after its send_command returned res
get_info(res) ==
    Uncaught(res,
        IF ~res.ok THEN Gives(SystemInfo(<<>>, <<>>))
        ELSE LET raw_bytes == Slice(res.data, 0, PRODUCTION_NUMBER_LENGTH)
             IN  IF Decodable(raw_bytes)
                 THEN Gives(SystemInfo(strip(decode(raw_bytes)), res.data))
                 ELSE Throws("ResponseError"))

\* ErrorEntry dataclass
ErrorEntry(index, code, raw) == [index |-> index, code |-> code, raw |-> raw]

\* one turn of get_error_history's loop with errors='replace' in its decode
Entry_replace(data, i) ==
    LET raw_bytes == Slice(data, i * ERROR_ENTRY_SIZE,
                           i * ERROR_ENTRY_SIZE + ERROR_ENTRY_SIZE)
    IN  ErrorEntry(i + 1, strip(decode_replace(raw_bytes)), raw_bytes)

\* one turn of get_error_history's loop: entry i + 1
Entry(data, i) ==
    LET start_idx == i * ERROR_ENTRY_SIZE
        end_idx == start_idx + ERROR_ENTRY_SIZE
        raw_bytes == Slice(data, start_idx, end_idx)
    IN  IF Decodable(raw_bytes)
        THEN ErrorEntry(i + 1, strip(decode(raw_bytes)), raw_bytes)
        ELSE ErrorEntry(i + 1, <<>>, <<>>)

\* SystemManager.get_error_history, after its send_command returned res:
\* the entries of the ErrorHistory
get_error_history(res) ==
    Uncaught(res,
        IF ~res.ok THEN Gives(<<>>)
        ELSE Gives([e \in 1..ERROR_HISTORY_COUNT |-> Entry(res.data, e - 1)]))

\* the operations of DeadBolt, LoadCell and SystemManager
BooleanOps == {"open", "close", "zero_calibration", "set_production_number",
               "clear_error_history", "factory_reset", "system_reset"}
Ops == BooleanOps \cup {"get_status", "read_all", "read_channel",
                        "get_total_weight", "get_info", "get_error_history",
                        "get_last_readings"}

\* an operation's arguments: read_channel's channel, set_production_number's
\* number
Args(channel, number) == [channel |-> channel, number |-> number]
NoArgs == Args(0, <<>>)

\* the tests an operation makes before it calls send_command, without
\* set_production_number's `if not number`
Precheck_accepts_empty(op, arg) ==
    IF op = "set_production_number" /\ ~Encodable(arg.number)
    THEN Gives(FALSE)
    ELSE IF op = "read_channel"
            /\ ~(1 <= arg.channel /\ arg.channel <= NUM_CHANNELS)
    THEN Throws("ValueError")
    ELSE NotYet

\* the tests an operation makes before it calls send_command: what it
\* gives its caller at once, or NotYet
Precheck(op, arg) ==
    IF op = "set_production_number"
    THEN (IF arg.number = <<>> THEN Gives(FALSE)
          ELSE IF ~Encodable(arg.number) THEN Gives(FALSE)
          ELSE NotYet)
    ELSE IF op = "read_channel"
    THEN (IF ~(1 <= arg.channel /\ arg.channel <= NUM_CHANNELS)
          THEN Throws("ValueError")
          ELSE NotYet)
    ELSE NotYet

\* the send_command arguments of each operation, with open and close
\* passing each other's letter
Sent_letters_swapped(op, arg) ==
    CASE op = "open" -> <<"MC", "DC", <<ChC>>>>
      [] op = "close" -> <<"MC", "DC", <<ChO>>>>
      [] op = "set_production_number" -> <<"MC", "WP", encode(arg.number)>>
      [] op = "get_status" -> <<"RQ", "ID", <<>>>>
      [] op \in {"read_all", "read_channel", "get_total_weight"}
            -> <<"RQ", "IW", <<>>>>
      [] op = "zero_calibration" -> <<"MC", "LZ", <<>>>>
      [] op = "get_info" -> <<"RQ", "MI", <<>>>>
      [] op = "get_error_history" -> <<"RQ", "ER", <<>>>>
      [] op = "clear_error_history" -> <<"MC", "EZ", <<>>>>
      [] op = "factory_reset" -> <<"MC", "PD", <<>>>>
      [] op = "system_reset" -> <<"MC", "RT", <<>>>>

\* the send_command arguments of each operation: command, subcommand, data
Sent(op, arg) ==
    CASE op = "open" -> <<"MC", "DC", <<ChO>>>>
      [] op = "close" -> <<"MC", "DC", <<ChC>>>>
      [] op = "set_production_number" -> <<"MC", "WP", encode(arg.number)>>
      [] op = "get_status" -> <<"RQ", "ID", <<>>>>
      [] op \in {"read_all", "read_channel", "get_total_weight"}
            -> <<"RQ", "IW", <<>>>>
      [] op = "zero_calibration" -> <<"MC", "LZ", <<>>>>
      [] op = "get_info" -> <<"RQ", "MI", <<>>>>
      [] op = "get_error_history" -> <<"RQ", "ER", <<>>>>
      [] op = "clear_error_history" -> <<"MC", "EZ", <<>>>>
      [] op = "factory_reset" -> <<"MC", "PD", <<>>>>
      [] op = "system_reset" -> <<"MC", "RT", <<>>>>

\* what each operation gives its caller once send_command has ended with res
Decoded(op, arg, res) ==
    CASE op \in BooleanOps -> ReturnsSuccess(res)
      [] op = "get_status" -> get_status(res)
      [] op = "read_all" -> read_all(res)
      [] op = "read_channel" -> read_channel(arg.channel, res)
      [] op = "get_total_weight" -> get_total_weight(res)
      [] op = "get_info" -> get_info(res)
      [] op = "get_error_history" -> get_error_history(res)

\* bytes the board may send beyond the length an operation expects
MaxExtra == 1

\* a status payload of n bytes: door letter first, lock letter seventh
StatusPayload(n, door_byte, lock_byte, fill) ==
    [i \in 1..n |->
        IF i = 1 THEN door_byte ELSE IF i = 7 THEN lock_byte ELSE fill]

StatusPayloads ==
    {StatusPayload(n, door_byte, lock_byte, fill) :
        n \in 0..(MIN_RESPONSE_LENGTH + MaxExtra),
        door_byte \in {ChO, ChC, ChL}, lock_byte \in {ChL, ChU, ChO},
        fill \in {ChL, 48}}

\* fields of a weight answer: "   012", "-00012", "+00012", "000000",
\* blanks, a lone sign, a doubled sign, digits split by a blank, a byte
\* above 0x7F among digits, tab and newline around a digit, "nan", "-Inf"
WeightFields ==
    {<<32, 32, 32, 48, 49, 50>>, <<45, 48, 48, 48, 49, 50>>,
     <<43, 48, 48, 48, 49, 50>>, <<48, 48, 48, 48, 48, 48>>,
     <<32, 32, 32, 32, 32, 32>>, <<45, 32, 32, 32, 32, 32>>,
     <<45, 45, 49, 32, 32, 32>>, <<49, 32, 50, 32, 32, 32>>,
     <<49, 50, 255, 32, 32, 32>>, <<9, 32, 55, 10, 32, 32>>,
     <<110, 97, 110, 32, 32, 32>>, <<45, 73, 110, 102, 32, 32>>}

\* the field the other channels hold: "+00100"
PlainField == <<43, 48, 48, 49, 48, 48>>

\* a weight payload: field f in the slot of channel k, PlainField in the
\* other slots and beyond, cut to n bytes
WeightPayload(k, f, n) ==
    [i \in 1..n |->
        IF (i - 1) \div BYTES_PER_CHANNEL = k - 1
        THEN f[((i - 1) % BYTES_PER_CHANNEL) + 1]
        ELSE PlainField[((i - 1) % BYTES_PER_CHANNEL) + 1]]

WeightPayloads ==
    {WeightPayload(k, f, n) :
        k \in 1..NUM_CHANNELS, f \in WeightFields,
        n \in 0..(TOTAL_DATA_BYTES + MaxExtra)}

\* four-byte error codes: "E001", " E1 ", blanks, a byte above 0x7F
ErrorCodes ==
    {<<ChE, 48, 48, 49>>, <<32, ChE, 49, 32>>, <<32, 32, 32, 32>>,
     <<ChE, 200, 48, 49>>}

\* the code the other entries hold: "E002"
PlainCode == <<ChE, 48, 48, 50>>

\* an error-history payload: code f in entry k, cut to n bytes
HistoryPayload(k, f, n) ==
    [i \in 1..n |->
        IF (i - 1) \div ERROR_ENTRY_SIZE = k - 1
        THEN f[((i - 1) % ERROR_ENTRY_SIZE) + 1]
        ELSE PlainCode[((i - 1) % ERROR_ENTRY_SIZE) + 1]]

HistoryPayloads ==
    {HistoryPayload(k, f, n) :
        k \in 1..ERROR_HISTORY_COUNT, f \in ErrorCodes,
        n \in 0..(ERROR_HISTORY_COUNT * ERROR_ENTRY_SIZE + MaxExtra)}

\* a production number answer of n bytes: "PD" padded with blanks, byte b
\* at index 2
InfoPayloads ==
    {[i \in 1..n |-> IF i = 1 THEN ChP ELSE IF i = 2 THEN ChD
                     ELSE IF i = 3 THEN b ELSE 32] :
        n \in 0..(PRODUCTION_NUMBER_LENGTH + MaxExtra), b \in {32, 49, 200}}

\* payloads the board may answer an operation's request with
Payloads(op) ==
    CASE op = "get_status" -> StatusPayloads
      [] op \in {"read_all", "read_channel", "get_total_weight"}
            -> WeightPayloads
      [] op = "get_error_history" -> HistoryPayloads
      [] op = "get_info" -> InfoPayloads
      [] OTHER -> {<<>>, <<ChO>>}

\* arguments a caller passes: channels around the range 1..10, and the
\* numbers "", "PD1", "PDé" and "é"
ChannelArgs == {0, 1, 2, NUM_CHANNELS, NUM_CHANNELS + 1}
NumberArgs == {<<>>, <<ChP, ChD, 49>>, <<ChP, ChD, 233>>, <<233>>}

ArgsOf(op) ==
    CASE op = "read_channel" -> {Args(c, <<>>) : c \in ChannelArgs}
      [] op = "set_production_number" -> {Args(0, s) : s \in NumberArgs}
      [] OTHER -> {NoArgs}

\* f'{int(v):06d}' for -99999 <= v <= 999999
Format06d(v) ==
    IF v >= 0 THEN [i \in 1..6 |-> 48 + ((v \div 10 ^ (6 - i)) % 10)]
    ELSE <<45>> \o [i \in 1..5 |-> 48 + (((0 - v) \div 10 ^ (5 - i)) % 10)]

\* the mock's RQ-IW payload: data += f'{int(v):06d}' for each value
MockWeightPayload(values) ==
    [i \in 1..TOTAL_DATA_BYTES |->
        Format06d(values[((i - 1) \div BYTES_PER_CHANNEL) + 1])
            [((i - 1) % BYTES_PER_CHANNEL) + 1]]

\* the operations that end in LoadCell.read_all
ReadingOps == {"read_all", "read_channel", "get_total_weight"}

\* payloads of the mock's answers to the LoadCell operations: the weights
\* for RQ-IW, none for the MC-LZ acknowledgement.  The channel values of
\* the mock are (i+1)*100 as constructed, or what set_loadcell_values is
\* given: zeros, a negative value among others
MockPayloads(op) ==
    IF op \in ReadingOps
    THEN {MockWeightPayload(values) :
            values \in {[c \in 1..NUM_CHANNELS |-> c * 100],
                        [c \in 1..NUM_CHANNELS |-> 0],
                        [c \in 1..NUM_CHANNELS |->
                            IF c = 1 THEN 0 - 5 ELSE 12]}}
    ELSE {<<>>}

\* LoadCell._last_readings: None, or the list of a read_all
NoReadings == [set |-> FALSE, list |-> <<>>]
Cached(readings) == [set |-> TRUE, list |-> readings]

\* no operation has been called; LoadCell.__init__ sets _last_readings to
\* None
DecoderInit ==
    /\ d_pc = "idle"
    /\ d_op = "none"
    /\ d_arg = NoArgs
    /\ d_sent = <<>>
    /\ d_res = NoResult
    /\ d_out = NotYet
    /\ last_readings = NoReadings

\* LoadCell.get_last_readings: `return self._last_readings`
get_last_readings ==
    IF last_readings.set THEN Gives(last_readings.list) ELSE Gives(NoneValue)

\* an operation is called: get_last_readings returns at once; any other
\* operation makes its own tests, then its send_command call
Invoke(op, arg) ==
    /\ d_pc = "idle"
    /\ d_op' = op
    /\ d_arg' = arg
    /\ IF op = "get_last_readings"
       THEN /\ d_out' = get_last_readings
            /\ d_pc' = "done"
            /\ UNCHANGED d_sent
       ELSE IF Precheck(op, arg) # NotYet
       THEN /\ d_out' = Precheck(op, arg)
            /\ d_pc' = "done"
            /\ UNCHANGED d_sent
       ELSE /\ d_sent' = Append(d_sent, Sent(op, arg))
            /\ d_pc' = "called"
            /\ UNCHANGED d_out
    /\ UNCHANGED <<io_vars, codec_vars, life_vars, handler_vars, d_res, last_readings>>

\* what send_command ends with (io_board.py:112-113, 141, 159): an
\* exception when the IOBoard is not connected, else (True, payload) with
\* a payload of the device, or (False, b'') after the last attempt
Outcomes(op) ==
    IF ~ser_open THEN {Raise("CommunicationError")}
    ELSE {Return(FALSE, <<>>)}
         \cup {Return(TRUE, p) :
                  p \in (IF device = "mock" THEN MockPayloads(op)
                                            ELSE Payloads(op))}

\* read_all with its cache assigned before the `if not success` test
Assigned_before_test(op, res) ==
    IF op \in ReadingOps /\ res.kind = "return"
    THEN Cached(Readings(res))
    ELSE last_readings

\* `self._last_readings = readings` of read_all: reached when send_command
\* returned success, whichever operation called read_all
Assigned(op, res) ==
    IF op \in ReadingOps /\ res.kind = "return" /\ res.ok
    THEN Cached(Readings(res))
    ELSE last_readings

\* an operation that calls send_command a second time when the first call
\* reported failure
Complete_repeats_failed ==
    /\ d_pc = "called"
    /\ \E res \in Outcomes(d_op) :
         /\ d_res' = res
         /\ IF res.kind = "return" /\ ~res.ok /\ Len(d_sent) = 1
            THEN /\ d_sent' = Append(d_sent, Sent(d_op, d_arg))
                 /\ UNCHANGED <<d_pc, d_out>>
            ELSE /\ d_out' = Decoded(d_op, d_arg, res)
                 /\ d_pc' = "done"
                 /\ UNCHANGED d_sent
         /\ last_readings' = Assigned(d_op, res)
    /\ UNCHANGED <<io_vars, codec_vars, life_vars, handler_vars, d_op, d_arg>>

\* the operation's send_command call ends with some res and the operation
\* computes what it gives its caller
Complete ==
    /\ d_pc = "called"
    /\ \E res \in Outcomes(d_op) :
         /\ d_res' = res
         /\ d_out' = Decoded(d_op, d_arg, res)
         /\ last_readings' = Assigned(d_op, res)
    /\ d_pc' = "done"
    /\ UNCHANGED <<io_vars, codec_vars, life_vars, handler_vars, d_op, d_arg, d_sent>>

\* the caller takes the result; the next call can be made
NextCall ==
    /\ d_pc = "done"
    /\ d_pc' = "idle"
    /\ d_op' = "none"
    /\ d_arg' = NoArgs
    /\ d_sent' = <<>>
    /\ d_res' = NoResult
    /\ d_out' = NotYet
    /\ UNCHANGED <<io_vars, codec_vars, life_vars, handler_vars, last_readings>>

(***************************************************************************)
(* mqtt_interface.py: DoorManualHandler.  A dict key that may be missing   *)
(* is Absent or Some(value); a message text is a tuple of its parts.       *)
(***************************************************************************)

Absent == [absent |-> TRUE, v |-> ""]
Some(v) == [absent |-> FALSE, v |-> v]

\* dict.get(key, default)
Get(entry, default) == IF entry.absent THEN default ELSE entry.v

\* a cmd/door/manual message: HEADER.IF_SYSID and DATA.door_state
Message(if_sysid, door_state) ==
    [IF_SYSID |-> if_sysid, door_state |-> door_state]

\* the acknowledgement: HEADER.IF_ID and IF_SYSID, DATA.result_cd,
\* result_msg and door_state
Ack(if_id, if_sysid, result_cd, result_msg, door_state) ==
    [IF_ID |-> if_id, IF_SYSID |-> if_sysid, result_cd |-> result_cd,
     result_msg |-> result_msg, door_state |-> door_state]

NoAck == Ack("none", "none", "none", <<>>, "none")

\* str(uuid.uuid4()): a fresh identifier, none of them an id of a request
Uuids == {"uuid-1", "uuid-2"}

\* MQTTMessage.build: `IF_SYSID=if_sysid or str(uuid.uuid4())`, the ids the
\* header may get
HeaderIds(if_sysid) ==
    IF ~if_sysid.absent /\ if_sysid.v # "" THEN {if_sysid.v} ELSE Uuids

\* `elif door_state == DoorState.OPEN` / `elif door_state == DoorState.CLOSE`:
\* the DeadBolt operation handle calls for a door_state ("none": no call)
DoorOp(door_state) ==
    IF door_state = "OPEN" THEN "open"
    ELSE IF door_state = "CLOSE" THEN "close"
    ELSE "none"

\* DoorManualHandler.__init__ with or without a DeadBolt; no message yet
HandlerInit(deadbolt) ==
    /\ h_deadbolt = deadbolt
    /\ h_request = Message(Absent, Absent)
    /\ h_calls = <<>>
    /\ h_ack = NoAck

\* result_cd and result_msg after the DeadBolt operation op gave out
DoorResult(op, out) ==
    IF out.kind = "raise" THEN <<"9999", <<out.exc>>>>
    ELSE IF out.value THEN <<"0000", <<>>>>
    ELSE <<"9999", <<"Failed to ", op, " door">>>>

\* DoorManualHandler.handle: the whole call, the DeadBolt operation it
\* makes included (its send_command ends with some res)
handle(message) ==
    /\ h_ack = NoAck
    /\ h_request' = message
    /\ LET if_sysid == message.IF_SYSID
           door_state == Get(message.door_state, "")
           op == DoorOp(door_state)
       IN
       \E id \in HeaderIds(if_sysid) :
           IF ~h_deadbolt
           THEN /\ h_calls' = <<>>
                /\ h_ack' = Ack("IF_03", id, "9999",
                                <<"DeadBolt not available">>, door_state)
           ELSE IF op = "none"
           THEN /\ h_calls' = <<>>
                /\ h_ack' = Ack("IF_03", id, "9999",
                                <<"Invalid door_state: ", door_state>>,
                                door_state)
           ELSE \E res \in Outcomes(op) :
                  LET out == Decoded(op, NoArgs, res)
                      r == DoorResult(op, out)
                  IN  /\ h_calls' = <<[op |-> op, out |-> out]>>
                      /\ h_ack' = Ack("IF_03", id, r[1], r[2], door_state)
    /\ UNCHANGED <<io_vars, codec_vars, life_vars, decoder_vars, h_deadbolt>>

\* two callers of an IOBoard on the mock
Init ==
    /\ \E rc \in 0..MaxRetry, v \in BOOLEAN : IOBoardInit(rc, v)
    /\ device = "mock"
    /\ CodecInit
    /\ DecoderInit
    /\ HandlerInit(FALSE)

\* an IOBoard on the board itself
BoardInit ==
    /\ \E rc \in 0..MaxRetry, v \in BOOLEAN : IOBoardInit(rc, v)
    /\ device = "board"
    /\ CodecInit
    /\ DecoderInit
    /\ HandlerInit(FALSE)

Next ==
    \/ connect
    \/ \E t \in Threads :
         send_command(t, Request(t)[1], Request(t)[2], Request(t)[3],
                      TimeoutArg(t))
    \/ \E t \in Threads : send(t)
    \/ \E t \in Threads, exc \in {"TimeoutError", "CommunicationError"} :
         send_raises(t, exc)
    \/ \E t \in Threads : receive_until_etx(t)
    \/ \E t \in Threads : read_byte(t)
    \/ \E t \in Threads : read_timeout(t)
    \/ \E t \in Threads : read_raises(t)
    \/ \E t \in Threads : parse_response(t)
    \/ \E t \in Threads : sleep(t)
    \/ DeviceEmit

Spec == Init /\ [][Next]_vars

\* the one caller of the single-caller runs
Solo == 1

\* a single caller of send_command, the board at the other end
SoloNext ==
    \/ connect
    \/ send_command(Solo, Request(Solo)[1], Request(Solo)[2],
                    Request(Solo)[3], TimeoutArg(Solo))
    \/ send(Solo)
    \/ \E exc \in {"TimeoutError", "CommunicationError"} :
         send_raises(Solo, exc)
    \/ receive_until_etx(Solo)
    \/ read_byte(Solo)
    \/ read_timeout(Solo)
    \/ read_raises(Solo)
    \/ parse_response(Solo)
    \/ sleep(Solo)
    \/ DeviceEmit

SoloSpec == BoardInit /\ [][SoloNext]_vars

\* an IOBoard on the serial line to the board, constructed with any
\* retry_count, a negative one included, and validate_lrc left at its
\* default
LiveInit ==
    /\ \E rc \in -1..MaxRetry : IOBoardInit(rc, FALSE)
    /\ device = "line"
    /\ CodecInit
    /\ DecoderInit
    /\ HandlerInit(FALSE)

\* the steps of the caller's send_command once it is in the retry loop
SoloCall ==
    \/ send(Solo)
    \/ \E exc \in {"TimeoutError", "CommunicationError"} :
         send_raises(Solo, exc)
    \/ receive_until_etx(Solo)
    \/ read_byte(Solo)
    \/ read_timeout(Solo)
    \/ read_raises(Solo)
    \/ parse_response(Solo)
    \/ sleep(Solo)

\* the single caller where every write, every read(1) and every time.sleep
\* returns (with data, by its timeout or by an exception): the call's
\* thread is not held up for ever at any of its steps
LiveSpec == LiveInit /\ [][SoloNext]_vars /\ WF_vars(SoloCall)

\* the single caller, and a second thread that closes and reopens the
\* session at any moment (disconnect and connect take no lock)
RaceNext ==
    \/ connect
    \/ \E close_raises \in BOOLEAN : disconnect(close_raises)
    \/ send_command(Solo, Request(Solo)[1], Request(Solo)[2],
                    Request(Solo)[3], TimeoutArg(Solo))
    \/ send(Solo)
    \/ \E exc \in {"TimeoutError", "CommunicationError"} :
         send_raises(Solo, exc)
    \/ receive_until_etx(Solo)
    \/ read_byte(Solo)
    \/ read_timeout(Solo)
    \/ read_raises(Solo)
    \/ parse_response(Solo)
    \/ sleep(Solo)
    \/ DeviceEmit
    \/ \E exc \in {"CommunicationError", "AttributeError"} :
         send_detached(Solo, exc)
    \/ \E exc \in {"CommunicationError", "AttributeError"} :
         receive_detached(Solo, exc)
    \/ \E exc \in {"CommunicationError", "AttributeError"} :
         read_detached(Solo, exc)

RaceSpec == Init /\ [][RaceNext]_vars

\* the codec runs leave the IOBoard as constructed with its defaults
CodecStart ==
    /\ CodecInit
    /\ IOBoardInit(DefaultRetryCount, FALSE)
    /\ device = "mock"
    /\ DecoderInit
    /\ HandlerInit(FALSE)

CodecSpec == CodecStart /\ [][CodecNext]_vars

\* a session opened, closed and reopened, with one operation of a decoder
\* called on it
DecoderNext ==
    \/ connect
    \/ connect_again
    \/ connect_fails
    \/ \E close_raises \in BOOLEAN : disconnect(close_raises)
    \/ \E op \in Ops : \E arg \in ArgsOf(op) : Invoke(op, arg)
    \/ Complete

\* the decoder runs are made on the board itself
DecoderStart ==
    /\ CodecInit
    /\ IOBoardInit(DefaultRetryCount, FALSE)
    /\ device = "board"
    /\ DecoderInit
    /\ HandlerInit(FALSE)

DecoderSpec == DecoderStart /\ [][DecoderNext]_vars

\* the messages handled: IF_SYSID missing, empty or "req-1"; door_state
\* missing, "OPEN", "CLOSE", or another word
Messages ==
    {Message(if_sysid, door_state) :
        if_sysid \in {Absent, Some(""), Some("req-1")},
        door_state \in {Absent, Some("OPEN"), Some("CLOSE"), Some("HALF"),
                        Some("open")}}

\* a DoorManualHandler with or without a DeadBolt, on the board
HandlerStart ==
    /\ CodecInit
    /\ IOBoardInit(DefaultRetryCount, FALSE)
    /\ device = "board"
    /\ DecoderInit
    /\ \E deadbolt \in BOOLEAN : HandlerInit(deadbolt)

\* one message handled on a session that is opened and closed
HandlerNext ==
    \/ connect
    \/ \E close_raises \in BOOLEAN : disconnect(close_raises)
    \/ \E message \in Messages : handle(message)

HandlerSpec == HandlerStart /\ [][HandlerNext]_vars

\* a LoadCell on the mock, its operations called again and again while the
\* session is opened and closed
CacheNext ==
    \/ connect
    \/ \E close_raises \in BOOLEAN : disconnect(close_raises)
    \/ \E op \in ReadingOps \cup {"zero_calibration", "get_last_readings"} :
         \E arg \in ArgsOf(op) : Invoke(op, arg)
    \/ Complete
    \/ NextCall

CacheSpec == CodecStart /\ [][CacheNext]_vars

(***************************************************************************)
(* Claims C1-C5: the dispatcher and the channel lock (Spec)                *)
(***************************************************************************)

\* thread t has sent a frame and its matching receive_until_etx has not
\* completed yet
InFlight(t) == pc[t] \in {"recv", "read"}

Succeeded(t) == pc[t] = "done" /\ result[t].kind = "return" /\ result[t].ok

\* the call of thread t went into the retry loop (the IOBoard was connected)
Dispatched(t) == tx_frame[t] # <<>>

\* C1: at any instant at most one exchange (a send and its matching
\* receive_until_etx) is in flight on the connection: no thread sends while
\* another thread's receive for its own send is still outstanding.
C1_OneExchangeInFlight ==
    Cardinality({t \in Threads : InFlight(t)}) <= 1

\* C2: every call that returns success returns the payload of the device's
\* answer to its own request: the buffer it parsed holds only bytes the
\* device transmitted for that thread's request.
C2_OwnResponse ==
    \A t \in Threads : Succeeded(t) => Tags(rx_data[t]) = {t}

\* C3: with retry_count = N >= 1 on a connected IOBoard, a call whose every
\* attempt fails has performed exactly N sends and returns (False, b''),
\* without raising.
C3_ExhaustedAfterN ==
    \A t \in Threads :
        (pc[t] = "done" /\ Dispatched(t) /\ retry_count >= 1 /\ ~Succeeded(t))
            => /\ result[t] = Return(FALSE, <<>>)
               /\ n_send[t] = retry_count

C3_Witness ==
    /\ pc[1] = "done"
    /\ result[1] = Return(FALSE, <<>>)
    /\ retry_count = 2
    /\ n_send[1] = 2
    /\ last_error[1] = "LRCError"

\* C4: send_command stops at the first attempt whose buffer parses: the
\* parse step of a buffer that parses ends the call with (True, payload of
\* that buffer), a call that ended with success at attempt k (counted from
\* 1) has made exactly k sends, and a finished call does nothing more.
C4_StopsAtFirstParse ==
    /\ [](\A t \in Threads :
            Succeeded(t) =>
                /\ n_send[t] = attempt[t] + 1
                /\ attempt[t] < retry_count
                /\ parse(Bytes(rx_data[t]), validate_lrc).ok
                /\ result[t].data = parse(Bytes(rx_data[t]), validate_lrc).data)
    /\ [][\A t \in Threads :
            /\ (pc[t] = "parse" /\ pc'[t] # "parse"
                    /\ parse(Bytes(rx_data[t]), validate_lrc).ok)
                 => /\ pc'[t] = "done"
                    /\ result'[t] = Return(TRUE,
                            parse(Bytes(rx_data[t]), validate_lrc).data)
            /\ pc[t] = "done"
                 => /\ pc'[t] = "done"
                    /\ result'[t] = result[t]
                    /\ n_send'[t] = n_send[t]
                    /\ n_sleep'[t] = n_sleep[t]
                    /\ rx_data'[t] = rx_data[t]]_vars

C4_Witness ==
    /\ Succeeded(1)
    /\ attempt[1] = 1
    /\ n_send[1] = 2
    /\ last_error[1] = "TimeoutError"
    /\ result[1].data = <<ChC>>

\* C5: send_command sleeps only between two attempts: one sleep is entered
\* after each failed attempt but the last and precedes the next send, none
\* after the final failed attempt and none after a successful one (N
\* all-failing attempts give N - 1 sleeps).
C5_SleepsBetweenAttempts ==
    \A t \in Threads :
        /\ pc[t] = "sleep"
             => n_sleep[t] = n_send[t] /\ n_send[t] < retry_count
        /\ pc[t] = "send" => n_sleep[t] = n_send[t]
        /\ pc[t] \in {"recv", "read", "parse"} => n_sleep[t] = n_send[t] - 1
        /\ Succeeded(t) => n_sleep[t] = n_send[t] - 1
        /\ (pc[t] = "done" /\ Dispatched(t) /\ retry_count >= 1 /\ ~Succeeded(t))
             => n_sleep[t] = retry_count - 1

C5_Witness ==
    /\ pc[2] = "done"
    /\ result[2] = Return(FALSE, <<>>)
    /\ retry_count = 2
    /\ n_send[2] = 2
    /\ n_sleep[2] = 1

(***************************************************************************)
(* Claims C6-C10: the frame codec (CodecSpec)                              *)
(***************************************************************************)

\* the XOR of all the bytes of a sequence
RECURSIVE XorAll(_)
XorAll(bytes) ==
    IF bytes = <<>> THEN 0 ELSE BitXor(Head(bytes), XorAll(Tail(bytes)))

\* the buffer parsed is what Frame.build returned for c_frame
ParsedAsBuilt == c_pc = "parsed" /\ c_frame # NoFrame /\ c_raw = build(c_frame)

HasEtx(data) == \E i \in 1..Len(data) : data[i] = ETX

\* C6: round trip: for every command, subcommand and payload without an
\* ETX byte, Frame.parse of Frame.build's output returns the same command,
\* subcommand and payload, with checksum validation off and on.
C6_RoundTrip ==
    (ParsedAsBuilt /\ ~HasEtx(c_frame.data))
        => c_result = ParseOk(c_frame.command, c_frame.subcommand, c_frame.data)

C6_Witness ==
    /\ ParsedAsBuilt
    /\ c_validate
    /\ c_frame = Frame("RQ", "IW", <<ChO>>)
    /\ c_result.ok

\* C7: the checksum Frame.build appends is the XOR of the command bytes,
\* the subcommand bytes, the payload bytes and ETX, and calculate_lrc
\* ignores byte 0: a buffer and the same buffer with another first byte
\* have the same checksum.
C7_ChecksumExcludesStx ==
    /\ c_pc = "built"
         => c_raw[Len(c_raw)] =
                XorAll(CommandValue[c_frame.command]
                       \o SubCommandValue[c_frame.subcommand]
                       \o c_frame.data \o <<ETX>>)
    /\ c_pc = "summed" => c_lrc[1] = c_lrc[2]

C7_Witness ==
    /\ c_pc = "summed"
    /\ c_raw = build(Frame("MC", "DC", <<ChO>>))
    /\ c_lrc = <<XorAll(<<ChM, ChC, ChD, ChC, ChO, ETX>>),
                 XorAll(<<ChM, ChC, ChD, ChC, ChO, ETX>>)>>

\* C8: every frame Frame.build produces has length 7 + len(payload) and the
\* layout STX, 2 command bytes, 2 subcommand bytes, payload, ETX at index
\* len-2, checksum at index len-1.
C8_BuildLayout ==
    c_pc = "built" =>
        LET n == Len(c_frame.data) IN
        /\ Len(c_raw) = 7 + n
        /\ At(c_raw, 0) = STX
        /\ Slice(c_raw, 1, 3) = CommandValue[c_frame.command]
        /\ Slice(c_raw, 3, 5) = SubCommandValue[c_frame.subcommand]
        /\ Slice(c_raw, 5, 5 + n) = c_frame.data
        /\ At(c_raw, Len(c_raw) - 2) = ETX
        /\ At(c_raw, Len(c_raw) - 1) = XorAll(Slice(c_raw, 1, Len(c_raw) - 1))

C8_Witness ==
    /\ c_pc = "built"
    /\ c_frame = Frame("MC", "WP", <<ETX>>)
    /\ Len(c_raw) = 8

\* C9: Frame.parse on any buffer shorter than 7 bytes fails with the
\* frame-too-short FrameError, whatever the bytes are and whatever
\* validate_lrc is.
C9_TooShort ==
    (c_pc = "parsed" /\ Len(c_raw) < 7)
        => c_result = ParseRaise("FrameError", "too_short")

\* a 6-byte buffer that starts with STX and ends with ETX plus one byte
C9_Witness ==
    /\ c_pc = "parsed"
    /\ c_validate
    /\ Len(c_raw) = 6
    /\ At(c_raw, 0) = STX
    /\ At(c_raw, 4) = ETX
    /\ c_result = ParseRaise("FrameError", "too_short")

\* C10 as stated: Frame.parse on a buffer whose first byte is not STX
\* always fails with the bad-start FrameError.
C10_BadStartAlways ==
    (c_pc = "parsed" /\ Len(c_raw) >= 1 /\ At(c_raw, 0) # STX)
        => c_result = ParseRaise("FrameError", "invalid_stx")

\* C10 amended: on a buffer of at least 7 bytes whose first byte is not STX,
\* Frame.parse fails with the bad-start FrameError whatever the remaining
\* bytes are; on a shorter buffer whose first byte is not STX it fails with
\* the frame-too-short FrameError.
C10_BadStartFrom7 ==
    (c_pc = "parsed" /\ Len(c_raw) >= 1 /\ At(c_raw, 0) # STX)
        => c_result = IF Len(c_raw) >= 7
                      THEN ParseRaise("FrameError", "invalid_stx")
                      ELSE ParseRaise("FrameError", "too_short")

\* a built frame (known codes, ETX at len-2, correct checksum) whose first
\* byte alone was overwritten, parsed with validation on
C10_Witness ==
    /\ c_pc = "parsed"
    /\ c_validate
    /\ c_frame # NoFrame
    /\ c_raw = [build(c_frame) EXCEPT ![1] = 0]
    /\ c_result = ParseRaise("FrameError", "invalid_stx")

\* the buffer passes the length and STX tests of Frame.parse
Framed(raw) == Len(raw) >= 7 /\ At(raw, 0) = STX

\* the indexes at which a 0x03 may be taken as ETX: 5 .. len-2
EtxWindow(raw) == {i \in 5..(Len(raw) - 2) : At(raw, i) = ETX}

\* the greatest of them
LastEtx(raw) == CHOOSE i \in EtxWindow(raw) : \A j \in EtxWindow(raw) : j <= i

\* the buffer was parsed, passed the length and STX tests and holds an ETX
ParsedWithEtx == c_pc = "parsed" /\ Framed(c_raw) /\ EtxWindow(c_raw) # {}

\* C11: for a buffer of length >= 7 that starts with STX, the ETX position
\* Frame.parse uses is the greatest index i in 5..len-2 with raw[i] = 0x03
\* (len-2 itself when that byte is 0x03); when there is none, parse fails
\* with the ETX-not-found FrameError.  A 0x03 below index 5 or at the last
\* index is never taken as ETX.
C11_EtxPosition ==
    (c_pc = "parsed" /\ Framed(c_raw)) =>
        IF EtxWindow(c_raw) = {}
        THEN /\ EtxPos(c_raw) = -1
             /\ c_result = ParseRaise("FrameError", "etx_not_found")
        ELSE /\ EtxPos(c_raw) = LastEtx(c_raw)
             /\ c_result.msg # "etx_not_found"
             /\ c_result.ok => Len(c_result.data) = LastEtx(c_raw) - 5

\* the byte at len-2 is not ETX, two earlier indexes hold 0x03 and so does
\* the last index: the later of the two is taken
C11_Witness ==
    /\ c_pc = "parsed"
    /\ Len(c_raw) = 9
    /\ At(c_raw, 7) # ETX
    /\ At(c_raw, 8) = ETX
    /\ EtxWindow(c_raw) = {5, 6}
    /\ c_result.ok
    /\ c_result.data = <<ETX>>

\* C12: the payload a successful Frame.parse returns is raw[5:etxPos] for
\* the ETX position selected (empty when it is 5), and the command and
\* subcommand returned are the members whose codes are raw[1:3] and raw[3:5].
C12_PayloadSlice ==
    (c_pc = "parsed" /\ c_result.ok) =>
        /\ ParsedWithEtx
        /\ c_result.data = SubSeq(c_raw, 6, LastEtx(c_raw))
        /\ c_result.command \in Command
        /\ c_result.subcommand \in SubCommand
        /\ CommandValue[c_result.command] = SubSeq(c_raw, 2, 3)
        /\ SubCommandValue[c_result.subcommand] = SubSeq(c_raw, 4, 5)

\* a payload byte and then an ETX found by the backward search
C12_Witness ==
    /\ c_pc = "parsed"
    /\ Len(c_raw) = 9
    /\ At(c_raw, 7) # ETX
    /\ EtxWindow(c_raw) = {6}
    /\ c_result = ParseOk("RQ", "MI", <<ChO>>)

\* the buffer with the byte that follows its selected ETX replaced by b
Twin(raw, b) == [raw EXCEPT ![LastEtx(raw) + 2] = b]

\* bytes tried in the place of the byte that follows the ETX
TwinBytes == {0, ETX, ChO}

\* C13 as stated: with validate_lrc off, two buffers that are equal except
\* for the byte following the selected ETX give the same outcome.
C13_ByteAfterEtxIgnored ==
    (ParsedWithEtx /\ ~c_validate) =>
        \A b \in TwinBytes : parse(Twin(c_raw, b), FALSE) = c_result

\* C13 amended: with validate_lrc off, two buffers that are equal except
\* for the byte following the selected ETX give the same outcome, provided
\* that byte is the last byte of the buffer or is 0x03 in neither of them.
C13_TrailingByteIgnored ==
    (ParsedWithEtx /\ ~c_validate) =>
        \A b \in TwinBytes :
            (LastEtx(c_raw) = Len(c_raw) - 2 \/ b # ETX)
                => parse(Twin(c_raw, b), FALSE) = c_result

\* a built frame whose checksum byte alone was overwritten parses, with
\* validation off, to the frame that was built
C13_Witness ==
    /\ c_pc = "parsed"
    /\ ~c_validate
    /\ c_frame = Frame("MC", "DC", <<ChO>>)
    /\ c_raw = [build(c_frame) EXCEPT ![8] = 0]
    /\ c_result = ParseOk("MC", "DC", <<ChO>>)

\* C14: with validate_lrc on, Frame.parse fails with LRCError exactly when
\* the byte that follows the selected ETX differs from the XOR of the bytes
\* raw[1..etxPos]; with validate_lrc off it never fails with LRCError.
C14_LrcErrorExactly ==
    c_pc = "parsed" =>
        (c_result.exc = "LRCError"
            <=> /\ c_validate
                /\ Framed(c_raw)
                /\ EtxWindow(c_raw) # {}
                /\ At(c_raw, LastEtx(c_raw) + 1)
                       # XorAll(SubSeq(c_raw, 2, LastEtx(c_raw) + 1)))

\* a frame with a damaged command byte, and so a wrong checksum, parsed with
\* validation on: LRCError
C14_Witness ==
    /\ c_pc = "parsed"
    /\ c_validate
    /\ c_frame # NoFrame
    /\ c_raw = [build(c_frame) EXCEPT ![2] = 0]
    /\ c_result = ParseRaise("LRCError", "lrc_mismatch")

\* raw[1:3] is one of the command codes and raw[3:5] one of the subcommand
\* codes
KnownCodes(raw) ==
    /\ Len(raw) >= 5
    /\ \E c \in Command : CommandValue[c] = SubSeq(raw, 2, 3)
    /\ \E sc \in SubCommand : SubCommandValue[sc] = SubSeq(raw, 4, 5)

\* C15 as stated: Frame.parse fails with a FrameError whenever raw[1:3] is
\* not a command code or raw[3:5] is not a subcommand code, and never
\* returns a frame whose command or subcommand lies outside the enumerations.
C15_UnknownCodeFrameError ==
    c_pc = "parsed" =>
        /\ ~KnownCodes(c_raw) => c_result.exc = "FrameError"
        /\ c_result.ok => (c_result.command \in Command
                           /\ c_result.subcommand \in SubCommand)

\* C15 amended: Frame.parse fails whenever raw[1:3] is not a command code or
\* raw[3:5] is not a subcommand code: with LRCError when validate_lrc is on
\* and the checksum test, which comes first, fails, with a FrameError
\* otherwise; it never returns a frame whose command or subcommand lies
\* outside the enumerations.
C15_UnknownCodeFails ==
    c_pc = "parsed" =>
        /\ ~KnownCodes(c_raw) =>
              /\ ~c_result.ok
              /\ c_result.exc \in {"FrameError", "LRCError"}
              /\ c_result.exc = "LRCError" => c_validate
              /\ ~c_validate => c_result.exc = "FrameError"
        /\ c_result.ok => (c_result.command \in Command
                           /\ c_result.subcommand \in SubCommand)

\* a frame whose subcommand byte alone was damaged, parsed with validation
\* off: unknown subcommand
C15_Witness ==
    /\ c_pc = "parsed"
    /\ ~c_validate
    /\ c_frame # NoFrame
    /\ c_raw = [build(c_frame) EXCEPT ![5] = 0]
    /\ c_result = ParseRaise("FrameError", "unknown_subcommand")

\* the index (from 1) of the first 0x03 of a byte sequence, 0 when none
FirstEtx(raw) ==
    IF \E i \in 1..Len(raw) : raw[i] = ETX
    THEN CHOOSE i \in 1..Len(raw) :
             raw[i] = ETX /\ \A j \in 1..(i - 1) : raw[j] # ETX
    ELSE 0

\* the buffer send_command has parsed holds a subcommand code other than the
\* one it sent
SubcommandMismatch(t) ==
    /\ Len(rx_data[t]) >= 5
    /\ SubSeq(Bytes(rx_data[t]), 4, 5) # SubSeq(tx_frame[t], 4, 5)

\* C16: a response that parses but carries another subcommand than the one
\* sent is not a failed attempt: the parse step ends the call with
\* (True, payload of that response), with no further send and no sleep.
C16_MismatchIsSuccess ==
    [][\A t \in Threads :
        (/\ pc[t] = "parse"
         /\ pc'[t] # "parse"
         /\ SubcommandMismatch(t)
         /\ EtxWindow(Bytes(rx_data[t])) # {}
         /\ parse(Bytes(rx_data[t]), validate_lrc).ok)
        => /\ pc'[t] = "done"
           /\ result'[t] = Return(TRUE,
                  SubSeq(Bytes(rx_data[t]), 6, LastEtx(Bytes(rx_data[t]))))
           /\ n_send'[t] = n_send[t]
           /\ n_sleep'[t] = n_sleep[t]]_vars

\* the board answered the caller's RQ-ID with a frame of subcommand DC, and
\* the call returned that frame's (empty) payload at its first attempt
C16_Witness ==
    /\ device = "board"
    /\ Succeeded(Solo)
    /\ SubcommandMismatch(Solo)
    /\ Sends(rx_data[Solo]) = {1}
    /\ n_send[Solo] = 1
    /\ retry_count = 2
    /\ result[Solo] = Return(TRUE, <<>>)

\* C17: receive_until_etx stops reading as soon as one byte has been read
\* after the first 0x03 of the stream, whatever that byte is, and returns
\* the buffer ending with that byte: while it reads, no byte follows the
\* first 0x03 of its buffer, and the buffer it returns holds at most one.
C17_StopsAfterFirstEtx ==
    \A t \in Threads :
        LET raw == Bytes(rx_data[t])
            i == FirstEtx(raw)
        IN  i # 0 => /\ pc[t] = "read" => Len(raw) = i
                     /\ pc[t] = "parse" => Len(raw) <= i + 1

\* C18: receive_until_etx raises TimeoutError only when a read times out
\* with nothing received; when a read times out after at least one byte, it
\* returns the bytes received so far.
C18_TimeoutOnlyWhenEmpty ==
    [][\A t \in Threads :
        (pc[t] = "read" /\ pc'[t] # "read") =>
            /\ (pc'[t] # "parse" /\ last_error'[t] = "TimeoutError")
                   => (rx_data[t] = <<>> /\ in_buf = <<>>)
            /\ (rx_data[t] # <<>> /\ in_buf = <<>>)
                   => \/ pc'[t] = "parse" /\ rx_data'[t] = rx_data[t]
                      \/ pc'[t] # "parse" /\ last_error'[t] = "CommunicationError"
            /\ (rx_data[t] = <<>> /\ in_buf = <<>>) => pc'[t] # "parse"]_vars

\* three bytes of an answer arrived and then nothing: they were returned
C18_Witness ==
    /\ pc[Solo] = "parse"
    /\ Len(rx_data[Solo]) = 3
    /\ FirstEtx(Bytes(rx_data[Solo])) = 0
    /\ in_buf = <<>>
    /\ last_error[Solo] = "None"

\* C19: the buffer of receive_until_etx never exceeds 500 bytes: the loop
\* reads on only below 500, and against a transmission without any 0x03 the
\* call returns once it holds 500.
C19_BufferCap ==
    \A t \in Threads :
        /\ Len(rx_data[t]) <= max_buffer_size
        /\ pc[t] = "read" => Len(rx_data[t]) < max_buffer_size

\* 500 bytes without ETX were returned while the board goes on transmitting
C19_Witness ==
    /\ pc[Solo] = "parse"
    /\ Len(rx_data[Solo]) = max_buffer_size
    /\ FirstEtx(Bytes(rx_data[Solo])) = 0
    /\ in_buf # <<>>

\* C20: with a single caller every attempt is a fresh cycle: the buffer
\* that the receive of the caller's k-th send returns holds no byte the
\* device transmitted in answer to an earlier send.
C20_FreshCycle ==
    pc[Solo] = "parse" => Sends(rx_data[Solo]) \subseteq {n_send[Solo]}

\* the buffer send_command parsed is one whole transmission of the device,
\* made in answer to the caller's latest send
WholeAnswer(t) ==
    /\ Sends(rx_data[t]) = {n_send[t]}
    /\ Lengths(rx_data[t]) = {Len(rx_data[t])}

\* C21: send_command returns (True, p) only when p is the complete payload
\* of the frame the device transmitted for that attempt: the buffer parsed
\* is the whole of that frame and p is its bytes from index 5 up to the ETX
\* at len-2; a response cut short is never returned as a success.
C21_CompletePayload ==
    Succeeded(Solo) =>
        /\ WholeAnswer(Solo)
        /\ result[Solo].data
               = SubSeq(Bytes(rx_data[Solo]), 6, Len(rx_data[Solo]) - 2)

(***************************************************************************)
(* Claims about the session and the decoders                               *)
(***************************************************************************)

\* the latest connect or disconnect call, told by the outcome it left
Called(call) == conn_result.call = call

\* C22: a new SerialConnection is closed; connect on a connected session
\* returns True without opening the port again; disconnect on a closed
\* session changes nothing; after any disconnect, also one whose close()
\* raised, the session is not connected; a failing connect raises
\* ConnectionError and leaves the session closed.
C22_SessionLifecycle ==
    /\ [](/\ Called("none") => ~ser_open /\ n_open = 0
          /\ Called("disconnect") => ~ser_open /\ conn_result.kind = "return"
          /\ (Called("connect") /\ conn_result.kind = "raise")
                => ~ser_open /\ conn_result.value = "ConnectionError"
          /\ (Called("connect") /\ conn_result.kind = "return")
                => ser_open /\ conn_result.value = "True")
    /\ [][/\ n_open' # n_open => ~ser_open /\ ser_open' /\ n_open' = n_open + 1
          /\ (ser_open /\ conn_result' # conn_result
                  /\ conn_result'.call = "connect")
                => /\ ser_open' /\ n_open' = n_open
                   /\ conn_result'.kind = "return"
                   /\ ~conn_result'.opened
          /\ (~ser_open /\ conn_result' # conn_result
                  /\ conn_result'.call = "disconnect")
                => /\ UNCHANGED <<serial_vars, n_open>>
                   /\ ~conn_result'.close_raised]_vars

\* a port was opened, and a disconnect whose close() raised has closed the
\* session
C22_Witness ==
    /\ Called("disconnect")
    /\ conn_result.close_raised
    /\ ~ser_open
    /\ n_open = 2

\* the operations C23 lists, and what each gives its caller for a failure
TransportOps ==
    {"open", "close", "get_status", "read_all", "zero_calibration",
     "get_info", "get_error_history", "clear_error_history",
     "factory_reset", "system_reset"}

FailureValue(op) ==
    CASE op = "get_status" -> <<"UNKNOWN", "UNKNOWN">>
      [] op \in {"read_all", "get_error_history"} -> <<>>
      [] op = "get_info" -> [production_number |-> <<>>, raw |-> <<>>]
      [] OTHER -> FALSE

\* send_command did not end with (True, payload)
TransportFailed == ~(d_res.kind = "return" /\ d_res.ok)

\* C23: every decoder operation reports a transport failure as False,
\* (Unknown, Unknown) or an empty result and lets no exception reach its
\* caller, also when the IOBoard is not connected.
C23_TransportFailureReported ==
    (d_pc = "done" /\ d_op \in TransportOps /\ TransportFailed)
        => /\ d_out.kind = "return"
           /\ d_out.value = FailureValue(d_op)

\* get_status has returned after its send_command returned
StatusReturned ==
    d_pc = "done" /\ d_op = "get_status" /\ d_res.kind = "return"

\* C24: with a payload of at least 7 bytes the door status follows byte 0
\* ('O' Opened, 'C' Closed, else Unknown) and the lock status byte 6
\* ('L' Locked, 'U' Unlocked, else Unknown), each on its own; a shorter
\* payload or a failed dispatch gives (Unknown, Unknown) without raising.
C24_StatusDecoding ==
    StatusReturned =>
        /\ d_out.kind = "return"
        /\ IF d_res.ok /\ Len(d_res.data) >= 7
           THEN /\ d_out.value[1] =
                      (CASE d_res.data[1] = 79 -> "OPENED"
                         [] d_res.data[1] = 67 -> "CLOSED"
                         [] OTHER -> "UNKNOWN")
                /\ d_out.value[2] =
                      (CASE d_res.data[7] = 76 -> "LOCK"
                         [] d_res.data[7] = 85 -> "UNLOCK"
                         [] OTHER -> "UNKNOWN")
           ELSE d_out.value = <<"UNKNOWN", "UNKNOWN">>

\* an unknown door letter beside a known lock letter, 'L' standing at byte 5
C24_Witness ==
    /\ StatusReturned
    /\ d_res.ok
    /\ Len(d_res.data) >= 7
    /\ d_res.data[6] = 76
    /\ d_out.value = <<"UNKNOWN", "UNLOCK">>

\* read_all has returned after a successful dispatch
WeightsRead ==
    d_pc = "done" /\ d_op = "read_all" /\ d_res.kind = "return" /\ d_res.ok

\* C25: on a successful dispatch read_all returns exactly 10 entries, for
\* the channels 1..10 in order, whatever the payload's length; a channel
\* whose 6-byte slot lies wholly beyond the payload has value 0.0, raw "".
C25_TenReadings ==
    WeightsRead =>
        /\ d_out.kind = "return"
        /\ Len(d_out.value) = 10
        /\ \A i \in 1..10 :
             /\ d_out.value[i].channel = i
             /\ 6 * (i - 1) >= Len(d_res.data)
                  => d_out.value[i] =
                        [channel |-> i, value |-> Num(0), raw |-> <<>>]

\* a payload that ends inside the slot of channel 2
C25_Witness ==
    /\ WeightsRead
    /\ Len(d_res.data) = 7
    /\ Len(d_out.value) = 10
    /\ d_out.value[1].value = Num(12)
    /\ d_out.value[3].raw = <<>>

\* the bytes of channel i's slot, whitespace trimmed from both ends
TrimmedField(data, i) ==
    strip(decode_replace(SubSeq(data, 6 * (i - 1) + 1, Min(6 * i, Len(data)))))

\* text is a signed decimal number: an optional sign, then decimal digits
IsSignedDecimal(text) ==
    /\ text # <<>>
    /\ LET digits == IF text[1] \in {43, 45} THEN Tail(text) ELSE text
       IN  digits # <<>> /\ \A j \in 1..Len(digits) : digits[j] \in 48..57

SignedDecimal(text) ==
    IF text[1] = 45 THEN 0 - DecimalValue(Tail(text))
    ELSE IF text[1] = 43 THEN DecimalValue(Tail(text))
    ELSE DecimalValue(text)

\* C26: the reading of channel i depends only on the payload bytes
\* [6(i-1), 6i): its value is the signed decimal number written there after
\* trimming whitespace, and an empty, blank or unparsable field gives 0.0.
C26_FieldValue ==
    WeightsRead =>
        \A i \in 1..10 :
            d_out.value[i].value =
                IF IsSignedDecimal(TrimmedField(d_res.data, i))
                THEN Num(SignedDecimal(TrimmedField(d_res.data, i)))
                ELSE Num(0)

\* an operation of LoadCell has returned after a failed dispatch
WeightsFailed(op) ==
    d_pc = "done" /\ d_op = op /\ d_res = Return(FALSE, <<>>)

\* C27: on a dispatcher failure read_all returns an empty list,
\* read_channel returns None and get_total_weight returns 0.
C27_FailureResults ==
    /\ WeightsFailed("read_all") => d_out = Gives(<<>>)
    /\ WeightsFailed("read_channel") => d_out = Gives(NoneValue)
    /\ WeightsFailed("get_total_weight") => d_out = Gives(Num(0))

\* read_channel(10) after a failed dispatch
C27_Witness ==
    /\ WeightsFailed("read_channel")
    /\ d_arg.channel = 10
    /\ d_out.value = NoneValue

\* the arguments an operation refuses
BadNumber ==
    /\ d_op = "set_production_number"
    /\ \/ d_arg.number = <<>>
       \/ \E i \in 1..Len(d_arg.number) : d_arg.number[i] > 127

BadChannel ==
    d_op = "read_channel" /\ (d_arg.channel < 1 \/ d_arg.channel > 10)

\* C28: set_production_number with an empty or non-ASCII string returns
\* False and read_channel with a channel outside 1..10 raises ValueError,
\* each without a single send_command invocation.
C28_RefusedWithoutSending ==
    /\ (BadNumber \/ BadChannel) => d_pc = "done" /\ d_sent = <<>>
    /\ BadNumber => d_out.kind = "return" /\ d_out.value = FALSE
    /\ BadChannel => d_out.kind = "raise" /\ d_out.exc = "ValueError"

\* read_channel(11) has raised
C28_Witness ==
    /\ BadChannel
    /\ d_arg.channel = 11
    /\ d_out.exc = "ValueError"
    /\ d_sent = <<>>

\* the codes and payload bytes of the one send_command invocation made
SentBytes ==
    <<CommandValue[d_sent[1][1]] \o SubCommandValue[d_sent[1][2]],
      d_sent[1][3]>>

\* the request of each operation: 'MCDC' 'O', 'MCDC' 'C', 'MCWP' number,
\* 'RQID', 'RQIW', 'MCLZ', 'RQMI', 'RQER', 'MCEZ', 'MCPD', 'MCRT'
Expected(op) ==
    CASE op = "open" -> <<<<77, 67, 68, 67>>, <<79>>>>
      [] op = "close" -> <<<<77, 67, 68, 67>>, <<67>>>>
      [] op = "set_production_number" -> <<<<77, 67, 87, 80>>, d_arg.number>>
      [] op = "get_status" -> <<<<82, 81, 73, 68>>, <<>>>>
      [] op \in {"read_all", "read_channel", "get_total_weight"}
            -> <<<<82, 81, 73, 87>>, <<>>>>
      [] op = "zero_calibration" -> <<<<77, 67, 76, 90>>, <<>>>>
      [] op = "get_info" -> <<<<82, 81, 77, 73>>, <<>>>>
      [] op = "get_error_history" -> <<<<82, 81, 69, 82>>, <<>>>>
      [] op = "clear_error_history" -> <<<<77, 67, 69, 90>>, <<>>>>
      [] op = "factory_reset" -> <<<<77, 67, 80, 68>>, <<>>>>
      [] op = "system_reset" -> <<<<77, 67, 82, 84>>, <<>>>>

\* C29: each operation sends its command, subcommand and payload, and each
\* operation that returns a boolean returns the dispatcher's success flag.
C29_RequestAndFlag ==
    /\ d_sent # <<>> => Len(d_sent) = 1 /\ SentBytes = Expected(d_op)
    /\ (d_pc = "done" /\ d_op \in BooleanOps /\ d_res.kind = "return")
          => d_out.kind = "return" /\ d_out.value = d_res.ok

\* DeadBolt.open has sent MC-DC 'O' and returned the dispatcher's True
C29_Witness ==
    /\ d_pc = "done"
    /\ d_op = "open"
    /\ d_sent = <<<<"MC", "DC", <<79>>>>>>
    /\ d_res.ok
    /\ d_out.value = TRUE

\* get_error_history has returned after its send_command returned
HistoryRead ==
    d_pc = "done" /\ d_op = "get_error_history" /\ d_res.kind = "return"

\* the bytes of entry i's slot
CodeBytes(data, i) == SubSeq(data, 4 * (i - 1) + 1, Min(4 * i, Len(data)))

\* C30: on success get_error_history returns exactly 4 entries, indexes
\* 1..4, entry i holding the trimmed ASCII text of the payload bytes
\* [4(i-1), 4i); an entry that is not ASCII gets an empty code and leaves
\* the others as they are; on failure the history is empty.
C30_ErrorHistory ==
    HistoryRead =>
        /\ d_out.kind = "return"
        /\ IF ~d_res.ok THEN d_out.value = <<>>
           ELSE /\ Len(d_out.value) = 4
                /\ \A i \in 1..4 :
                     /\ d_out.value[i].index = i
                     /\ d_out.value[i].code =
                          IF \A j \in 1..Len(CodeBytes(d_res.data, i)) :
                                 CodeBytes(d_res.data, i)[j] < 128
                          THEN strip(CodeBytes(d_res.data, i))
                          ELSE <<>>

\* entry 2 is not ASCII and has an empty code; entries 1 and 3 read "E002"
C30_Witness ==
    /\ HistoryRead
    /\ d_res.ok
    /\ Len(d_res.data) = 16
    /\ \E j \in 5..8 : d_res.data[j] > 127
    /\ d_out.value[2].code = <<>>
    /\ d_out.value[1].code = <<69, 48, 48, 50>>
    /\ d_out.value[3].code = <<69, 48, 48, 50>>

\* a frame with a non-empty payload was built, its checksum byte was lost on
\* the wire and nothing else changed, and the buffer was parsed
ChecksumLost ==
    /\ c_pc = "parsed"
    /\ c_frame # NoFrame
    /\ c_frame.data # <<>>
    /\ c_raw = Slice(build(c_frame), 0, Len(build(c_frame)) - 1)

\* C34: with validation off, the buffer STX, command, subcommand, non-empty
\* payload, ETX without a checksum byte decodes to the same frame and
\* payload as the same buffer followed by any checksum byte.
C34_MissingChecksumTolerated ==
    (ChecksumLost /\ ~c_validate) =>
        /\ c_result = ParseOk(c_frame.command, c_frame.subcommand, c_frame.data)
        /\ \A b \in 0..255 : parse(Append(c_raw, b), FALSE) = c_result

(***************************************************************************)
(* Claims C36-C37: what receive_until_etx leaves behind (Spec)             *)
(***************************************************************************)

\* thread t is inside the `with self._lock` block of receive_until_etx
InReceive(t) == pc[t] = "read"

\* C36: every exit of send and of receive_until_etx, by return, by
\* TimeoutError or by CommunicationError, releases the channel lock: the
\* lock is held only by a thread inside receive_until_etx, the step by which
\* a thread leaves receive_until_etx frees it, and a send step leaves it
\* free, so that a later send or receive of any thread can take it.
C36_LockReleasedOnExit ==
    /\ [](\A t \in Threads : lock = t => InReceive(t))
    /\ [][\A t \in Threads :
            /\ (InReceive(t) /\ ~InReceive(t)') => lock' = 0
            /\ (pc[t] = "send" /\ pc'[t] # "send") => lock' = 0]_vars

\* both attempts of thread 1 have failed, the last one by TimeoutError, and
\* thread 2 has taken the lock for its own receive and is reading
C36_Witness ==
    /\ pc[1] = "done"
    /\ retry_count = 2
    /\ n_send[1] = 2
    /\ last_error[1] = "TimeoutError"
    /\ lock = 2
    /\ InReceive(2)
    /\ rx_data[2] # <<>>

\* C37: the timeout override of a call is temporary: outside of a
\* receive_until_etx the port's read timeout is the value the port was
\* opened with, and inside one it is the caller's override when the caller
\* passed one and the port's own value when it passed none, whatever the
\* calls before it passed.
C37_TimeoutRestored ==
    ser_timeout = IF lock # 0 /\ timeout[lock] # None
                  THEN timeout[lock] ELSE DefaultTimeout

\* thread 2 has finished a call with the override, and thread 1, which
\* passes no timeout, reads with the port's own timeout
C37_Witness ==
    /\ pc[2] = "done"
    /\ timeout[2] = OverrideTimeout
    /\ result[2].kind = "return"
    /\ n_send[2] >= 1
    /\ lock = 1
    /\ InReceive(1)
    /\ timeout[1] = None
    /\ ser_timeout = DefaultTimeout

(***************************************************************************)
(* Claim C33: buffers that do not end after an ETX (SoloSpec)              *)
(***************************************************************************)

\* no byte of the buffer follows a 0x03: there is no 0x03 in it, or the only
\* one is its last byte
Unterminated(raw) == \A i \in 1..(Len(raw) - 1) : raw[i] # ETX

\* C33: a buffer returned by receive_until_etx in which no byte follows an
\* ETX is rejected by Frame.parse: the parse step of send_command on such a
\* buffer ends as a failed attempt with a FrameError, followed by the sleep
\* before the next attempt when one is left, and no call returns success
\* from such a buffer.
C33_UnterminatedRejected ==
    /\ [](Succeeded(Solo) => ~Unterminated(Bytes(rx_data[Solo])))
    /\ [][(pc[Solo] = "parse" /\ Unterminated(Bytes(rx_data[Solo]))
            /\ pc'[Solo] # "parse")
          => /\ last_error'[Solo] = "FrameError"
             /\ ~Succeeded(Solo)'
             /\ n_send'[Solo] = n_send[Solo]
             /\ IF attempt[Solo] + 1 < retry_count
                THEN pc'[Solo] = "sleep"
                ELSE result'[Solo] = Return(FALSE, <<>>)]_vars

\* the board's answer ended with its ETX, the 7 bytes were returned at the
\* read timeout and rejected, and the second attempt is under way
C33_Witness ==
    /\ last_error[Solo] = "FrameError"
    /\ attempt[Solo] = 1
    /\ n_send[Solo] = 2
    /\ pc[Solo] = "parse"
    /\ Len(rx_data[Solo]) = 7
    /\ Bytes(rx_data[Solo])[7] = ETX
    /\ Unterminated(Bytes(rx_data[Solo]))

(***************************************************************************)
(* Claim C38: send_command returns (LiveSpec)                              *)
(***************************************************************************)

\* the caller's send_command is in its retry loop
InLoop(t) == pc[t] \in {"send", "recv", "read", "parse", "sleep"}

\* C38: every send_command on a connected session returns, provided each
\* read and write returns within its timeout: it makes at most retry_count
\* sends, each attempt reads at most 500 bytes, it sleeps at most
\* retry_count - 1 times, and with retry_count <= 0 it sends nothing and
\* returns (False, b'').
C38_Returns ==
    /\ [](/\ n_send[Solo] <= (IF retry_count > 0 THEN retry_count ELSE 0)
          /\ n_sleep[Solo] <= (IF retry_count > 0 THEN retry_count - 1 ELSE 0)
          /\ Len(rx_data[Solo]) <= max_buffer_size
          /\ (Dispatched(Solo) /\ retry_count <= 0)
                => /\ pc[Solo] = "done"
                   /\ result[Solo] = Return(FALSE, <<>>))
    /\ []((Dispatched(Solo) /\ pc[Solo] # "done") => <>(pc[Solo] = "done"))

\* a call of two attempts with one sleep between them that returned
\* (False, b''): the second attempt read 500 bytes of an endless
\* transmission, which did not parse, and left the next byte in the port
C38_Witness ==
    /\ pc[Solo] = "done"
    /\ retry_count = 2
    /\ n_send[Solo] = 2
    /\ n_sleep[Solo] = 1
    /\ result[Solo] = Return(FALSE, <<>>)
    /\ last_error[Solo] = "FrameError"
    /\ Len(in_buf) = 1

(***************************************************************************)
(* Claim C35: one send_command per decoder call (DecoderSpec)              *)
(***************************************************************************)

\* the operation called is one that goes to the board, and it ran into
\* none of its own tests
NotRefused == d_op # "get_last_readings" /\ Precheck(d_op, d_arg) = NotYet

\* C35: every public decoder operation invokes send_command exactly once,
\* also when that invocation reports failure.
C35_ExactlyOnce ==
    d_pc = "done" => Len(d_sent) = 1

\* C35 amended: every public decoder operation invokes send_command at most
\* once, and exactly once unless it is get_last_readings, which only returns
\* the cache, or is refused before the dispatch (set_production_number with
\* an empty or non-ASCII number, read_channel with a channel outside 1..10),
\* also when that invocation reports failure or raises: no decoder repeats
\* a failed dispatch.
C35_AtMostOnce ==
    /\ Len(d_sent) <= 1
    /\ d_pc = "called" => Len(d_sent) = 1
    /\ d_pc = "done" => (Len(d_sent) = 1 <=> NotRefused)
    /\ (d_pc = "done" /\ NotRefused) => d_res.kind # "none"

\* read_all's one send_command call has reported failure and read_all has
\* returned the empty list
C35_Witness ==
    /\ d_pc = "done"
    /\ d_op = "read_all"
    /\ d_res = Return(FALSE, <<>>)
    /\ d_out = Gives(<<>>)
    /\ Len(d_sent) = 1

(***************************************************************************)
(* Claim C39: the cached readings of LoadCell (CacheSpec)                  *)
(***************************************************************************)

\* the step is the return of a read_all (called directly, or by
\* read_channel or get_total_weight) whose send_command returned success
ReadSucceeds ==
    /\ d_pc = "called"
    /\ d_pc' = "done"
    /\ d_op \in ReadingOps
    /\ d_res'.kind = "return"
    /\ d_res'.ok

\* C39: get_last_readings returns None until a read_all has succeeded and
\* afterwards the list returned by the most recent successful read_all:
\* the cache starts as None, a successful read_all replaces it by the ten
\* readings it returns, every other step (a read_all whose send_command
\* fails or raises, zero_calibration, get_last_readings, connect,
\* disconnect) leaves it as it is, and get_last_readings returns it.
C39_CacheFollowsReads ==
    /\ last_readings = NoReadings
    /\ [][IF ReadSucceeds
          THEN /\ last_readings' = Cached(Readings(d_res'))
               /\ Len(last_readings'.list) = NUM_CHANNELS
               /\ d_op = "read_all" => d_out' = Gives(last_readings'.list)
          ELSE last_readings' = last_readings]_vars
    /\ []((d_pc = "done" /\ d_op = "get_last_readings") =>
            /\ d_sent = <<>>
            /\ IF last_readings.set
               THEN d_out = Gives(last_readings.list)
               ELSE d_out = Gives(NoneValue))

\* a read_all whose send_command failed has returned the empty list while
\* the cache still holds the readings of an earlier read_all, "-00005" on
\* channel 1
C39_Witness ==
    /\ d_pc = "done"
    /\ d_op = "read_all"
    /\ d_res = Return(FALSE, <<>>)
    /\ d_out = Gives(<<>>)
    /\ last_readings.set
    /\ last_readings.list[1].raw = <<45, 48, 48, 48, 48, 53>>
    /\ last_readings.list[1].value = Num(0 - 5)

(***************************************************************************)
(* Claim C32: disconnect against an exchange in progress (RaceSpec)        *)
(***************************************************************************)

\* C32: connect and disconnect are mutually exclusive with send and receive
\* on the same SerialConnection: while a receive is in progress (its caller
\* holds the channel lock) the port is not released, so the operation never
\* finds the port closed midway.
C32_PortHeldDuringExchange ==
    \A t \in Threads : (lock = t /\ InReceive(t)) => ser_open

(***************************************************************************)
(* Claim C31: the acknowledgement of DoorManualHandler (HandlerSpec)       *)
(***************************************************************************)

\* handle has returned its acknowledgement
Handled == h_ack # NoAck

\* the door_state of the message handled, as handle reads it
RequestedState == Get(h_request.door_state, "")

\* handle made exactly one DeadBolt call, of op
CalledOnly(op) == Len(h_calls) = 1 /\ h_calls[1].op = op

\* the one DeadBolt call handle made returned True
CallReturnedTrue ==
    /\ Len(h_calls) = 1
    /\ h_calls[1].out.kind = "return"
    /\ h_calls[1].out.value

\* C31 without its last clause: SUCCESS exactly when a DeadBolt is present,
\* door_state is OPEN or CLOSE and the operation returned True; OPEN invokes
\* only open, once, CLOSE only close, once, any other door_state invokes
\* nothing and yields FAILURE; the acknowledgement echoes door_state.
AckResult ==
    Handled =>
        /\ h_ack.IF_ID = "IF_03"
        /\ h_ack.result_cd \in {"0000", "9999"}
        /\ (h_ack.result_cd = "0000")
              <=> (h_deadbolt /\ RequestedState \in {"OPEN", "CLOSE"}
                     /\ CallReturnedTrue)
        /\ (h_deadbolt /\ RequestedState = "OPEN") => CalledOnly("open")
        /\ (h_deadbolt /\ RequestedState = "CLOSE") => CalledOnly("close")
        /\ (~h_deadbolt \/ RequestedState \notin {"OPEN", "CLOSE"})
              => h_calls = <<>> /\ h_ack.result_cd = "9999"
        /\ h_ack.door_state = RequestedState

\* C31: handle acknowledges SUCCESS exactly when a DeadBolt is present,
\* door_state is OPEN or CLOSE and the corresponding DeadBolt operation
\* returned True; OPEN invokes only open and CLOSE only close, once, any
\* other door_state invokes nothing and yields FAILURE; and the
\* acknowledgement echoes the request's door_state and IF_SYSID.
C31_Acknowledgement ==
    /\ AckResult
    /\ (Handled /\ ~h_request.IF_SYSID.absent)
          => h_ack.IF_SYSID = h_request.IF_SYSID.v

====
